---------------------------- MODULE Spec2Model ----------------------------
(***************************************************************************)
(* GlobalMatch Assistant (src/app.py): the input validator, the retrying   *)
(* completion client call_groq_api, the batch loops and the follow-up      *)
(* actions of the session, as state machines.                              *)
(*                                                                         *)
(* A text is a sequence of runs of characters.  A run is whitespace        *)
(* ("ws"), filler characters that have no case and belong to no keyword    *)
(* ("fill"), or one word of the keyword vocabulary ("word"), written in    *)
(* lower case (up = FALSE) or with upper-case letters (up = TRUE).         *)
(***************************************************************************)
EXTENDS Integers, Sequences, FiniteSets, TLC

\* ------------------------------------------------------------ constants
MAX_INPUT_CHARS == 15000
MIN_INPUT_CHARS == 100
MAX_RETRIES == 3
\* len(resumes) > 10, len(cv_list) > 10
BATCH_CAP == 10
\* add_to_history: the entries a history keeps
HISTORY_CAP == 200
\* create_share_link: the days a share link lasts
SHARE_DAYS == 30

\* --------------------------------------------------------- model bounds
\* lengths within LenSlack of MIN_INPUT_CHARS and MAX_INPUT_CHARS are drawn
LenSlack == 1
\* leading and trailing whitespace runs of 0..MaxPad characters
MaxPad == 1
\* a drawn batch input has 1..MaxPieces pieces (or one more than the cap)
MaxPieces == 3
\* the operations on the histories other than a matching analysis
MaxOps == 3
\* the matching analyses of a session (beyond the capacity, where a history
\* is filled)
MaxSaves == 1
\* the views of a shared resume
MaxViews == 1
\* the lines of a Markdown text are at most
MaxLines == 4

VARIABLES
    text,          \* validate_input: the text argument
    input_type,    \* validate_input: the input_type argument
    vres,          \* validate_input: the returned (is_valid, error) pair
    backend,       \* the simulated completion endpoint: the errors it may raise (msgs)
                   \* and the texts it may generate (texts)
    cpc,           \* call_groq_api: "idle", "loop" (at the head of the for loop),
                   \* "inflight" (inside client.chat.completions.create),
                   \* "returned" or "raised"
    prompt,        \* call_groq_api: the prompt argument
    attempt,       \* call_groq_api: the loop variable
    last_error,    \* call_groq_api: last_error
    inflight,      \* requests sent to the endpoint and not yet answered
    events,        \* what the current call has done so far, in order
    cres,          \* call_groq_api: the text returned or the ValueError raised
    sent,          \* the requests sent to the endpoint for the items of a batch
    impl,          \* the batch implementation that runs: "process_batch_resumes",
                   \* "batch_resume" (main, a batch of resumes), "batch_cv" (main, a
                   \* batch of CVs)
    batch_input,   \* the text of the batch text area (main), or the resumes
                   \* argument (process_batch_resumes)
    bpc,           \* the batch: "ready", "item" (at the head of the for loop),
                   \* "calling" (inside call_groq_api), "done", "rejected", "aborted"
    resumes,       \* the list the loop runs over (resumes, cv_list)
    i,             \* the loop index
    results,       \* results (cv_results)
    calls,         \* the items call_groq_api was called for, in order
    naps,          \* the time.sleep(1) calls of the run
    stored,        \* st.session_state['batch_results'] ('batch_cv_extract_results')
    widgets,       \* the text areas: resume_text_input, cv_extract_input,
                   \* matching_resume_input, matching_jd_input
    session_state, \* st.session_state: resume_result, resume_en_result,
                   \* cv_extract_result, matching_result and the inputs stored
                   \* with it (None: the key is absent)
    spc,           \* the handler of main that is inside call_groq_api, or "ready"
    notice,        \* the last st.warning, st.error or st.success shown
    history,       \* st.session_state: resume_history, jd_history, saved_jobs,
                   \* saved_job_sets
    local_storage, \* localStorage of the browser
    quota,         \* the number of entries an item of localStorage may hold
    clock,         \* datetime.now()
    budget,        \* the operations still to run: matching analyses (appends)
                   \* and others
    log,           \* the entries add_to_history was given, per kind, in order
    hres,          \* the outcome of the last operation on the histories
    exported,      \* the last backup downloaded
    config,        \* SUPABASE_AVAILABLE and the secrets of the server
    records,       \* the table shared_resumes of the datastore
    today,         \* the day
    tenant,        \* st.session_state and the share calls of each session
    actor,         \* the session that took the last step
    md_content,    \* generate_html: the content argument
    html_content   \* generate_html: html_content after the table conversion

valVars == <<text, input_type, vres>>
callVars == <<cpc, prompt, attempt, last_error, inflight, events, cres, sent>>
batchVars == <<impl, batch_input, bpc, resumes, i, results, calls, naps, stored>>
sessVars == <<widgets, session_state, spc, notice>>
\* what no step of call_groq_api changes
storeOnly == <<history, local_storage, quota, budget, log, hres, exported>>
storeVars == <<storeOnly, clock>>
shareVars == <<config, records, today, tenant, actor>>
\* what the actions of the paragraphs up to main's handlers leave alone
pageVars == <<md_content, html_content>>
restVars == <<storeVars, shareVars, pageVars>>
\* what the history functions and the share functions leave alone
appVars == <<valVars, backend, callVars, batchVars, sessVars, pageVars>>
callerVars == <<valVars, backend, batchVars, sessVars, restVars>>
vars == <<callerVars, callVars>>

\* ---------------------------------------------------------------- texts
WS(n) == [k |-> "ws", w |-> "", n |-> n, up |-> FALSE]
Fill(n) == [k |-> "fill", w |-> "", n |-> n, up |-> FALSE]

\* the keyword lists of validate_input; the Japanese keywords are named by
\* their readings (boshu = 募集, gyomu = 業務, hissu = 必須, kangei = 歓迎,
\* taigu = 待遇, kyuyo = 給与, shigoto = 仕事, shokushu = 職種, obo = 応募)
ResumeKeywords ==
    {"experience", "skill", "work", "education", "project", "develop", "engineer"}
JdKeywords ==
    {"boshu", "gyomu", "hissu", "kangei", "taigu", "kyuyo", "shigoto", "shokushu", "obo"}
JdEnKeywords ==
    {"job", "position", "role", "responsibilities", "requirements", "salary",
     "benefits", "experience", "engineer", "developer"}

\* number of characters of a word
WordLen(w) ==
    CASE w \in JdKeywords -> 2
      [] w = "job" -> 3
      [] w \in {"work", "role"} -> 4
      [] w = "skill" -> 5
      [] w = "salary" -> 6
      [] w \in {"project", "develop"} -> 7
      [] w \in {"engineer", "position", "benefits"} -> 8
      [] w \in {"education", "developer"} -> 9
      [] w = "experience" -> 10
      [] w = "requirements" -> 12
      [] w = "responsibilities" -> 16

\* the Japanese script has no case: such a word is never written in upper case
Word(w, up) == [k |-> "word", w |-> w, n |-> WordLen(w), up |-> up /\ w \notin JdKeywords]

\* the keywords that occur inside a word as a substring
SubWords(w) == IF w = "developer" THEN {"developer", "develop"} ELSE {w}

RECURSIVE PyLen(_)
\* len(text)
PyLen(t) == IF t = <<>> THEN 0 ELSE Head(t).n + PyLen(Tail(t))

RECURSIVE LStrip(_)
LStrip(t) == IF t # <<>> /\ Head(t).k = "ws" THEN LStrip(Tail(t)) ELSE t

RECURSIVE RStrip(_)
RStrip(t) ==
    IF t # <<>> /\ t[Len(t)].k = "ws" THEN RStrip(SubSeq(t, 1, Len(t) - 1)) ELSE t

\* text.strip()
Strip(t) == RStrip(LStrip(t))

\* text.lower()
Lower(t) == [j \in 1..Len(t) |-> [t[j] EXCEPT !.up = FALSE]]

\* kw in text
Contains(t, kw) ==
    \E j \in 1..Len(t) : t[j].k = "word" /\ ~t[j].up /\ kw \in SubWords(t[j].w)

\* ------------------------------------------------------- validate_input
\* the returned pair: ok, and the message as its kind e, the input type it
\* names (of) and the numbers it shows (n: the limit, len: the length)
Valid == [ok |-> TRUE, e |-> "", of |-> "", n |-> 0, len |-> 0]
Invalid(e, of, n, len) == [ok |-> FALSE, e |-> e, of |-> of, n |-> n, len |-> len]
\* validate_input has not returned
NoResult == Invalid("pending", "", 0, 0)

\* a mutant: the length reported by the TooLong message is that of the raw text
validate_input_RawLen(t, ty) ==
    LET s == Strip(t) IN
    IF t = <<>> \/ s = <<>> THEN Invalid("Empty", "", 0, 0)
    ELSE IF PyLen(s) < MIN_INPUT_CHARS THEN Invalid("TooShort", "", MIN_INPUT_CHARS, 0)
    ELSE IF PyLen(s) > MAX_INPUT_CHARS
         THEN Invalid("TooLong", "", MAX_INPUT_CHARS, PyLen(t))
    ELSE IF ty = "resume" /\ ~\E kw \in ResumeKeywords : Contains(Lower(s), kw)
         THEN Invalid("NotRecognized", "resume", 0, 0)
    ELSE IF ty = "jd" /\ ~\E kw \in JdKeywords : Contains(s, kw)
         THEN Invalid("NotRecognized", "jd", 0, 0)
    ELSE IF ty = "jd_en" /\ ~\E kw \in JdEnKeywords : Contains(Lower(s), kw)
         THEN Invalid("NotRecognized", "jd_en", 0, 0)
    ELSE Valid

\* a mutant: no keyword list is lower-cased before the comparison
validate_input_NoFold(t, ty) ==
    LET s == Strip(t) IN
    IF t = <<>> \/ s = <<>> THEN Invalid("Empty", "", 0, 0)
    ELSE IF PyLen(s) < MIN_INPUT_CHARS THEN Invalid("TooShort", "", MIN_INPUT_CHARS, 0)
    ELSE IF PyLen(s) > MAX_INPUT_CHARS
         THEN Invalid("TooLong", "", MAX_INPUT_CHARS, PyLen(s))
    ELSE IF ty = "resume" /\ ~\E kw \in ResumeKeywords : Contains(s, kw)
         THEN Invalid("NotRecognized", "resume", 0, 0)
    ELSE IF ty = "jd" /\ ~\E kw \in JdKeywords : Contains(s, kw)
         THEN Invalid("NotRecognized", "jd", 0, 0)
    ELSE IF ty = "jd_en" /\ ~\E kw \in JdEnKeywords : Contains(s, kw)
         THEN Invalid("NotRecognized", "jd_en", 0, 0)
    ELSE Valid

validate_input(t, ty) ==
    LET s == Strip(t) IN
    IF t = <<>> \/ s = <<>> THEN Invalid("Empty", "", 0, 0)
    ELSE IF PyLen(s) < MIN_INPUT_CHARS THEN Invalid("TooShort", "", MIN_INPUT_CHARS, 0)
    ELSE IF PyLen(s) > MAX_INPUT_CHARS
         THEN Invalid("TooLong", "", MAX_INPUT_CHARS, PyLen(s))
    ELSE IF ty = "resume" /\ ~\E kw \in ResumeKeywords : Contains(Lower(s), kw)
         THEN Invalid("NotRecognized", "resume", 0, 0)
    ELSE IF ty = "jd" /\ ~\E kw \in JdKeywords : Contains(s, kw)
         THEN Invalid("NotRecognized", "jd", 0, 0)
    ELSE IF ty = "jd_en" /\ ~\E kw \in JdEnKeywords : Contains(Lower(s), kw)
         THEN Invalid("NotRecognized", "jd_en", 0, 0)
    ELSE Valid

\* -------------------------------------------------- the endpoint's errors
\* An error message (str(e)) is the set of marker phrases it contains, each
\* in lower case (FALSE) or with upper-case letters (TRUE), and its length.
Markers == {"invalid api key", "authentication", "rate limit", "timeout", "timed out"}
Msg(marks, len) == [marks |-> marks, len |-> len]
NoMsg == Msg({}, 0)

\* str(e).lower()
LowerMsg(m) == [m EXCEPT !.marks = {<<x[1], FALSE>> : x \in m.marks}]

\* phrase in error_str
InMsg(phrase, m) == <<phrase, FALSE>> \in m.marks

\* a mutant: the message is shown whole
Truncated_Whole(m) == m

\* str(last_error)[:100]
Truncated(m) == [m EXCEPT !.len = IF m.len > 100 THEN 100 ELSE m.len]

\* the messages the simulated endpoint may raise: a generic one (short and
\* longer than 100 characters), each phrase alone in either case, and
\* messages that match two classes at once
Messages ==
    {Msg({}, 40), Msg({}, 130)} \cup
    {Msg({<<p, up>>}, 40) : p \in Markers, up \in BOOLEAN} \cup
    {Msg({<<"authentication", FALSE>>, <<"rate limit", FALSE>>}, 60),
     Msg({<<"invalid api key", TRUE>>, <<"timed out", FALSE>>}, 60),
     Msg({<<"rate limit", TRUE>>, <<"timeout", FALSE>>}, 60)}

\* the texts the simulated endpoint may generate
ModelOutputs == {<<Fill(40)>>, <<Word("skill", FALSE), Fill(400)>>}

NoBackend == [msgs |-> {}, texts |-> {}]
FullBackend == [msgs |-> Messages, texts |-> ModelOutputs]

\* -------------------------------------------------------- call_groq_api
\* an entry of events: a request sent as attempt n, its failure with message
\* m, a time.sleep(n), or the success with text t
Ev(e, n, m, t) == [e |-> e, n |-> n, m |-> m, t |-> t]

\* the outcome of a call: the text, or the ValueError by its kind, the
\* attempt count and the underlying message it shows (Other only)
NoCallResult == [ok |-> FALSE, kind |-> "none", text |-> <<>>, tries |-> 0, detail |-> NoMsg]
Returned(t) == [ok |-> TRUE, kind |-> "", text |-> t, tries |-> 0, detail |-> NoMsg]
Raised(kind, tries, detail) ==
    [ok |-> FALSE, kind |-> kind, text |-> <<>>, tries |-> tries, detail |-> detail]

\* a mutant: the loop runs once more, range(MAX_RETRIES + 1)
RetryRange_OneMore == 0..MAX_RETRIES

\* a mutant: the loop runs twice as often, range(2 * MAX_RETRIES)
RetryRange_Twice == 0..(2 * MAX_RETRIES - 1)

\* range(MAX_RETRIES)
RetryRange == 0..(MAX_RETRIES - 1)

\* a mutant: a flat backoff of 5 seconds
WaitTime_Flat(att) == 5

\* a mutant: a backoff of 10, 20, ... seconds
WaitTime_Double(att) == (att + 1) * 10

\* wait_time = (attempt + 1) * 5
WaitTime(att) == (att + 1) * 5

\* a mutant: the rate-limit test comes before the credential test
OnFailure_RateFirst(att, e) ==
    LET error_str == LowerMsg(e) IN
    IF InMsg("rate limit", error_str)
    THEN IF att < MAX_RETRIES - 1
         THEN [do |-> "continue", kind |-> "", sleep |-> WaitTime(att)]
         ELSE [do |-> "raise", kind |-> "RateLimited", sleep |-> 0]
    ELSE IF InMsg("invalid api key", error_str) \/ InMsg("authentication", error_str)
    THEN [do |-> "raise", kind |-> "InvalidCredential", sleep |-> 0]
    ELSE IF InMsg("timeout", error_str) \/ InMsg("timed out", error_str)
    THEN IF att < MAX_RETRIES - 1
         THEN [do |-> "continue", kind |-> "", sleep |-> 0]
         ELSE [do |-> "raise", kind |-> "TimedOut", sleep |-> 0]
    ELSE IF att < MAX_RETRIES - 1
         THEN [do |-> "continue", kind |-> "", sleep |-> 2]
         ELSE [do |-> "continue", kind |-> "", sleep |-> 0]

\* a mutant: an unclassified error is retried without the 2-second sleep
OnFailure_NoGenericSleep(att, e) ==
    LET error_str == LowerMsg(e) IN
    IF InMsg("invalid api key", error_str) \/ InMsg("authentication", error_str)
    THEN [do |-> "raise", kind |-> "InvalidCredential", sleep |-> 0]
    ELSE IF InMsg("rate limit", error_str)
    THEN IF att < MAX_RETRIES - 1
         THEN [do |-> "continue", kind |-> "", sleep |-> WaitTime(att)]
         ELSE [do |-> "raise", kind |-> "RateLimited", sleep |-> 0]
    ELSE IF InMsg("timeout", error_str) \/ InMsg("timed out", error_str)
    THEN IF att < MAX_RETRIES - 1
         THEN [do |-> "continue", kind |-> "", sleep |-> 0]
         ELSE [do |-> "raise", kind |-> "TimedOut", sleep |-> 0]
    ELSE [do |-> "continue", kind |-> "", sleep |-> 0]

\* a mutant: a timeout is retried after a 2-second sleep
OnFailure_TimeoutSleeps(att, e) ==
    LET error_str == LowerMsg(e) IN
    IF InMsg("invalid api key", error_str) \/ InMsg("authentication", error_str)
    THEN [do |-> "raise", kind |-> "InvalidCredential", sleep |-> 0]
    ELSE IF InMsg("rate limit", error_str)
    THEN IF att < MAX_RETRIES - 1
         THEN [do |-> "continue", kind |-> "", sleep |-> WaitTime(att)]
         ELSE [do |-> "raise", kind |-> "RateLimited", sleep |-> 0]
    ELSE IF InMsg("timeout", error_str) \/ InMsg("timed out", error_str)
    THEN IF att < MAX_RETRIES - 1
         THEN [do |-> "continue", kind |-> "", sleep |-> 2]
         ELSE [do |-> "raise", kind |-> "TimedOut", sleep |-> 0]
    ELSE IF att < MAX_RETRIES - 1
         THEN [do |-> "continue", kind |-> "", sleep |-> 2]
         ELSE [do |-> "continue", kind |-> "", sleep |-> 0]

\* the except block: what the failure e of attempt att leads to, "raise" a
\* ValueError of the kind or "continue" with the loop (after time.sleep(sleep)
\* when sleep > 0; falling out of the block's last if also ends the iteration)
OnFailure(att, e) ==
    LET error_str == LowerMsg(e) IN
    IF InMsg("invalid api key", error_str) \/ InMsg("authentication", error_str)
    THEN [do |-> "raise", kind |-> "InvalidCredential", sleep |-> 0]
    ELSE IF InMsg("rate limit", error_str)
    THEN IF att < MAX_RETRIES - 1
         THEN [do |-> "continue", kind |-> "", sleep |-> WaitTime(att)]
         ELSE [do |-> "raise", kind |-> "RateLimited", sleep |-> 0]
    ELSE IF InMsg("timeout", error_str) \/ InMsg("timed out", error_str)
    THEN IF att < MAX_RETRIES - 1
         THEN [do |-> "continue", kind |-> "", sleep |-> 0]
         ELSE [do |-> "raise", kind |-> "TimedOut", sleep |-> 0]
    ELSE IF att < MAX_RETRIES - 1
         THEN [do |-> "continue", kind |-> "", sleep |-> 2]
         ELSE [do |-> "continue", kind |-> "", sleep |-> 0]

CallIdle ==
    /\ cpc = "idle"
    /\ prompt = [tpl |-> "", texts |-> <<>>]
    /\ attempt = 0
    /\ last_error = NoMsg
    /\ inflight = 0
    /\ events = <<>>
    /\ cres = NoCallResult
    /\ sent = 0

\* call_groq_api(api_key, p) is entered: client and last_error are set
CallEnter(p) ==
    /\ cpc' = "loop"
    /\ prompt' = p
    /\ attempt' = 0
    /\ last_error' = NoMsg
    /\ events' = <<>>
    /\ cres' = NoCallResult
    /\ UNCHANGED <<inflight, sent>>

\* the caller has taken the outcome of the call: its locals are gone
CallLeave ==
    /\ cpc' = "idle"
    /\ prompt' = [tpl |-> "", texts |-> <<>>]
    /\ attempt' = 0
    /\ last_error' = NoMsg
    /\ events' = <<>>
    /\ cres' = NoCallResult
    /\ UNCHANGED <<inflight, sent>>

\* client.chat.completions.create(...) sends the request of this attempt
IssueRequest ==
    /\ cpc = "loop"
    /\ attempt \in RetryRange
    /\ cpc' = "inflight"
    /\ inflight' = inflight + 1
    /\ events' = Append(events, Ev("request", attempt, NoMsg, <<>>))
    /\ sent' = IF bpc = "calling" THEN sent + 1 ELSE sent
    /\ UNCHANGED <<prompt, attempt, last_error, cres, callerVars>>

\* the request is answered with a text: return response.choices[0].message.content
RespondOk ==
    /\ cpc = "inflight"
    /\ \E out \in backend.texts :
        /\ cres' = Returned(out)
        /\ events' = Append(events, Ev("ok", attempt, NoMsg, out))
    /\ cpc' = "returned"
    /\ inflight' = inflight - 1
    /\ UNCHANGED <<prompt, attempt, last_error, sent, callerVars>>

\* the request raises e: the except block, then the next iteration or, the
\* range exhausted, the raise after the loop
RespondFail ==
    /\ cpc = "inflight"
    /\ \E e \in backend.msgs :
        LET d == OnFailure(attempt, e) IN
        /\ last_error' = e
        /\ events' = events \o <<Ev("fail", attempt, e, <<>>)>>
                        \o (IF d.sleep > 0 THEN <<Ev("sleep", d.sleep, NoMsg, <<>>)>> ELSE <<>>)
        /\ IF d.do = "raise"
           THEN /\ cpc' = "raised"
                /\ cres' = Raised(d.kind, 0, NoMsg)
                /\ UNCHANGED attempt
           ELSE IF attempt + 1 \in RetryRange
           THEN /\ cpc' = "loop"
                /\ attempt' = attempt + 1
                /\ UNCHANGED cres
           ELSE /\ cpc' = "raised"
                /\ cres' = Raised("Other", MAX_RETRIES, Truncated(e))
                /\ UNCHANGED attempt
    /\ inflight' = inflight - 1
    /\ UNCHANGED <<prompt, sent, callerVars>>

\* -------------------------------------------------------- generate_html
\* A Markdown text is the sequence of its lines and whether it ends with a
\* newline.  A line is a table row "| c | ... |" of so many cells ("row"),
\* a row whose cells are dashes, "|---|---|" ("sep"), a line without a
\* pipe ("plain"), or the empty line ("empty").  The passes of generate_html
\* that come before the table conversion (headings, bold, italics, code,
\* list items) leave the first and the last character of a line that
\* starts and ends with a pipe as they are, and leave the newlines.
TableRow(cells) == [k |-> "row", cells |-> cells]
SepRow(cells) == [k |-> "sep", cells |-> cells]
Plain == [k |-> "plain", cells |-> 0]
Empty == [k |-> "empty", cells |-> 0]
Markdown(lines, nl) == [lines |-> lines, nl |-> nl]

\* \|.+\| matches the line from its first to its last character
IsPipeLine(line) == line.k \in {"row", "sep"}

\* [\n]: the line is followed by a newline
Terminated(md, j) == j < Len(md.lines) \/ md.nl

\* one repetition of the group (\|.+\|[\n]) matches line j
GroupMatches(md, j) == IsPipeLine(md.lines[j]) /\ Terminated(md, j)

\* the last line of the match that starts at line j: + is greedy
MatchEnd(md, j) ==
    CHOOSE e \in j..Len(md.lines) :
        /\ \A h \in j..e : GroupMatches(md, h)
        /\ e = Len(md.lines) \/ ~GroupMatches(md, e + 1)

\* a row of the table: <tr> with the cells as <th> or <td>
Tr(tag, cells) == [tag |-> tag, cells |-> cells]

RECURSIVE HtmlRows(_, _)
\* the loop of convert_table over rows, from index idx (0-based): a row
\* whose cells are all dashes is skipped, the row of index 0 gets th, every
\* other row td
HtmlRows(rows, idx) ==
    IF idx >= Len(rows) THEN <<>>
    ELSE LET row == rows[idx + 1] IN
         (IF row.k = "sep" THEN <<>>
          ELSE <<Tr(IF idx = 0 THEN "th" ELSE "td", row.cells)>>)
         \o HtmlRows(rows, idx + 1)

\* a piece of html_content: a <table> with its rows, or a line of the
\* text that no match covers
Table(trs) == [k |-> "table", trs |-> trs, line |-> Empty]
Untouched(line) == [k |-> "line", trs |-> <<>>, line |-> line]

\* convert_table(match): '<table>...</table>' if html_rows else ''
convert_table(rows) ==
    LET html_rows == HtmlRows(rows, 0)
    IN IF html_rows # <<>> THEN <<Table(html_rows)>> ELSE <<>>

RECURSIVE Sub(_, _)
\* re.sub(r'(\|.+\|[\n])+', convert_table, html_content), from line j on:
\* the matches are found from the left and do not overlap
Sub(md, j) ==
    IF j > Len(md.lines) THEN <<>>
    ELSE IF GroupMatches(md, j)
    THEN LET e == MatchEnd(md, j)
         IN convert_table(SubSeq(md.lines, j, e)) \o Sub(md, e + 1)
    ELSE <<Untouched(md.lines[j])>> \o Sub(md, j + 1)

\* generate_html(content, title), up to the table conversion
generate_html(md) == Sub(md, 1)

\* html_content before generate_html has run
NotRendered == [done |-> FALSE, pieces |-> <<>>]
Rendered(pieces) == [done |-> TRUE, pieces |-> pieces]

PageIdle ==
    /\ md_content = Markdown(<<>>, FALSE)
    /\ html_content = NotRendered

\* ------------------------------------------------------ the idle parts
\* a value that may be None
None == [none |-> TRUE, v |-> <<>>]
Some(x) == [none |-> FALSE, v |-> x]

\* no batch runs
BatchIdle ==
    /\ impl = ""
    /\ batch_input = <<>>
    /\ bpc = "ready"
    /\ resumes = <<>>
    /\ i = 0
    /\ results = <<>>
    /\ calls = <<>>
    /\ naps = 0
    /\ stored = None

\* a message shown by st.warning, st.error or st.success (level), with what
\* it says
Shown(level, what) == [level |-> level, what |-> what]

\* a fresh session
SessionIdle ==
    /\ widgets = [resume_text_input |-> <<>>, cv_extract_input |-> <<>>,
                  matching_resume_input |-> <<>>, matching_jd_input |-> <<>>]
    /\ session_state = [resume_result |-> None, resume_en_result |-> None,
                        cv_extract_result |-> None, matching_result |-> None,
                        matching_resume_input |-> None, matching_jd_input |-> None]
    /\ spc = "ready"
    /\ notice = Shown("", [msg |-> ""])

\* ------------------------------------------------- the history functions
\* the keys of st.session_state that are exported and imported
StoreKeys == {"resume_history", "jd_history", "saved_jobs", "saved_job_sets"}

\* the order in which export_history_to_json writes them
KeyOrder == <<"resume_history", "jd_history", "saved_jobs", "saved_job_sets">>

HistoryKinds == {"resume", "jd"}

\* f"{history_type}_history"
HistoryKey(kind) == IF kind = "resume" THEN "resume_history" ELSE "jd_history"

\* a Python value (t: "list", "int", "str") or a JSON value (t: "array",
\* "number") with the items of the list or array (of a str: the number
\* that stands for its characters)
PyList(items) == [t |-> "list", items |-> items]
PyInt == [t |-> "int", items |-> <<>>]
PyStr(n) == [t |-> "str", items |-> <<n>>]
JsonArray(items) == [t |-> "array", items |-> items]
JsonNumber == [t |-> "number", items |-> <<>>]

\* json.dumps(value)
Dumps(v) == IF v.t = "list" THEN JsonArray(v.items) ELSE JsonNumber

\* json.loads(text) of a value
Loads(j) == IF j.t = "array" THEN PyList(j.items) ELSE PyInt

\* key not in st.session_state; st.session_state[key] = x
Absent == [present |-> FALSE, val |-> PyList(<<>>)]
Present(x) == [present |-> TRUE, val |-> x]

EmptyStore == [k \in StoreKeys |-> Absent]

\* init_history(history_type)
init_history(st, kind) ==
    IF st[HistoryKey(kind)].present THEN st
    ELSE [st EXCEPT ![HistoryKey(kind)] = Present(PyList(<<>>))]

\* entry = {'id': ..., 'title': title, 'content': content, 'timestamp': ...}
Entry(now, content, title) ==
    [id |-> now, title |-> title, content |-> content, timestamp |-> now]

\* a mutant: the entry is put at the end of the list
Insert_AtTail(items, entry) == Append(items, entry)

\* st.session_state[key].insert(0, entry)
Insert(items, entry) == <<entry>> \o items

\* if len(st.session_state[key]) > 200: st.session_state[key] = ...[:200]
Keep(items) ==
    IF Len(items) > HISTORY_CAP THEN SubSeq(items, 1, HISTORY_CAP) ELSE items

\* the statements of add_to_history before sync_to_localstorage; a value
\* that is no list has no insert (AttributeError)
add_to_history(st, kind, content, title, now) ==
    LET key == HistoryKey(kind)
        s1 == init_history(st, kind)
    IN IF s1[key].val.t # "list"
       THEN [st |-> s1, raised |-> TRUE]
       ELSE [st |-> [s1 EXCEPT ![key] = Present(PyList(
                        Keep(Insert(s1[key].val.items, Entry(now, content, title)))))],
             raised |-> FALSE]

\* the browser: localStorage.setItem(key, data) throws when data is larger
\* than the storage takes (q entries)
SetItemThrows(json, q) == Len(json.items) > q

\* the script of sync_to_localstorage in the browser:
\* try { localStorage.setItem(...) } catch(e) { console.error(...) }
SetItem(ls, key, json, q) ==
    IF SetItemThrows(json, q) THEN ls ELSE [ls EXCEPT ![key] = Present(json)]

\* a mutant: what the browser throws is raised in sync_to_localstorage
SyncRaises_WhatBrowserThrows(json, q) == SetItemThrows(json, q)

\* sync_to_localstorage in the server: json.dumps of strings and of values
\* read from JSON, two str.replace and st.components.v1.html do not raise
SyncRaises(json, q) == FALSE

\* sync_to_localstorage(history_type) (sync_saved_jobs_to_localstorage, ...)
sync_to_localstorage(ls, st, key, q) ==
    IF st[key].present THEN SetItem(ls, key, Dumps(st[key].val), q) ELSE ls

\* delete_history_item(history_type, item_id)
delete_history_item(st, kind, item_id) ==
    LET key == HistoryKey(kind) IN
    IF st[key].present
    THEN [st EXCEPT ![key] = Present(PyList(
             SelectSeq(st[key].val.items, LAMBDA item : item.id # item_id)))]
    ELSE st

\* clear_history(history_type)
clear_history(st, kind) ==
    LET key == HistoryKey(kind) IN
    IF st[key].present THEN [st EXCEPT ![key] = Present(PyList(<<>>))] ELSE st

\* a JSON text: one that does not parse (syntax FALSE), or an object with
\* (has_data) or without the member data, whose members are key and value
Document(date, data) ==
    [syntax |-> TRUE, has_data |-> TRUE, export_date |-> date, data |-> data]
BadSyntaxDoc == [syntax |-> FALSE, has_data |-> FALSE, export_date |-> 0, data |-> <<>>]
NoDataDoc == [syntax |-> TRUE, has_data |-> FALSE, export_date |-> 0, data |-> <<>>]
Member(key, json) == [key |-> key, value |-> json]

\* export_history_to_json("all"): the keys that are in st.session_state
export_history_to_json(st, now) ==
    LET present == SelectSeq(KeyOrder, LAMBDA k : st[k].present)
    IN Document(now, [j \in 1..Len(present) |->
                          Member(present[j], Dumps(st[present[j]].val))])

\* a mutant: the imported entries are put before those of the list
Replace_Merge(old, new) ==
    IF old.present /\ old.val.t = "list" /\ new.t = "list"
    THEN Present(PyList(new.items \o old.val.items))
    ELSE Present(new)

\* st.session_state[key] = history
Replace(old, new) == Present(new)

\* the outcome of import_history_from_json: the store, the local storage,
\* the returned flag, imported_count and the reason of a failure
Imported(st, ls, ok, count, why) ==
    [st |-> st, ls |-> ls, ok |-> ok, count |-> count, why |-> why]

RECURSIVE ImportItems(_, _, _, _, _)
\* for key, history in data['data'].items(): ...; len(history) of a value
\* that is no list raises TypeError, after the assignment
ImportItems(st, ls, data, count, q) ==
    IF data = <<>> THEN Imported(st, ls, TRUE, count, "")
    ELSE LET key == Head(data).key
             hist == Loads(Head(data).value)
             s1 == [st EXCEPT ![key] = Replace(st[key], hist)]
         IN IF key \notin StoreKeys
            THEN ImportItems(st, ls, Tail(data), count, q)
            ELSE IF hist.t # "list"
            THEN Imported(s1, ls, FALSE, count, "Exception")
            ELSE IF SyncRaises(Dumps(hist), q)
            THEN Imported(s1, ls, FALSE, count + Len(hist.items), "Exception")
            ELSE ImportItems(s1, sync_to_localstorage(ls, s1, key, q), Tail(data),
                             count + Len(hist.items), q)

\* import_history_from_json(json_string)
import_history_from_json(st, ls, doc, q) ==
    IF ~doc.syntax THEN Imported(st, ls, FALSE, 0, "JSONDecodeError")
    ELSE IF ~doc.has_data THEN Imported(st, ls, FALSE, 0, "no data")
    ELSE ImportItems(st, ls, doc.data, 0, q)

\* the outcome of the last operation: its number n, its name, whether it
\* raised and where (why: "AttributeError" in insert, "sync" in
\* sync_to_localstorage), what an import returned (ok, count, why) and of
\* which document, and the keys whose mirror script threw in the browser
Outcome(n, op, raised, ok, count, why, doc, thrown) ==
    [n |-> n, op |-> op, raised |-> raised, ok |-> ok, count |-> count,
     why |-> why, doc |-> doc, thrown |-> thrown]
NoOutcome == Outcome(0, "", FALSE, TRUE, 0, "", BadSyntaxDoc, {})

\* no export was downloaded: the document, and the store it was made of
NoExport == [taken |-> FALSE, doc |-> BadSyntaxDoc, of |-> EmptyStore]

\* a fresh session
StoreIdle ==
    /\ history = EmptyStore
    /\ local_storage = EmptyStore
    /\ quota = 0
    /\ clock = 1
    /\ budget = [appends |-> 0, others |-> 0]
    /\ log = [k \in HistoryKinds |-> <<>>]
    /\ hres = NoOutcome
    /\ exported = NoExport

\* ------------------------------------------------------ the share links
\* the sessions of the server, and the ids secrets.token_urlsafe(24) draws
Sessions == {"s1", "s2"}
Tokens == {"tokenA", "tokenB"}

\* what the server is set up with: the supabase library (available), the
\* secrets SUPABASE_URL and SUPABASE_ANON_KEY ("absent", "empty", "set"),
\* and whether create_client(url, key) accepts them
Config(available, url, key, accepts) ==
    [available |-> available, url |-> url, key |-> key, accepts |-> accepts]
NoConfig == Config(FALSE, "absent", "absent", FALSE)
Configs ==
    {NoConfig, Config(TRUE, "absent", "set", TRUE), Config(TRUE, "set", "absent", TRUE),
     Config(TRUE, "empty", "set", TRUE), Config(TRUE, "set", "set", FALSE),
     Config(TRUE, "set", "set", TRUE)}

\* a mutant: only the KeyError of a missing secret is caught
Swallowed_KeyErrorOnly(e) == e = "KeyError"

\* except (KeyError, Exception): pass; except Exception: return None
Swallowed(e) == TRUE

\* get_supabase_client(): "client", "none", or "raised"
get_supabase_client(c) ==
    IF ~c.available THEN "none"
    ELSE IF c.url = "absent" \/ c.key = "absent"
    THEN (IF Swallowed("KeyError") THEN "none" ELSE "raised")
    ELSE IF c.url = "set" /\ c.key = "set"
    THEN (IF c.accepts THEN "client"
          ELSE IF Swallowed("create_client") THEN "none" ELSE "raised")
    ELSE "none"

\* a row of the table shared_resumes, and the id that has no row
Row(content, expires_at, view_count) ==
    [exists |-> TRUE, content |-> content, expires_at |-> expires_at,
     view_count |-> view_count]
NoRow == [exists |-> FALSE, content |-> 0, expires_at |-> 0, view_count |-> 0]

\* what create_share_link or get_shared_resume gave: it raised, or returned
\* None (none), or returned the id (token) or the row (data); degraded: the
\* client was None or a call of the datastore failed
Gave(raised, none, token, data, degraded) ==
    [raised |-> raised, none |-> none, token |-> token, data |-> data,
     degraded |-> degraded]
NotCalled == Gave(FALSE, FALSE, "", NoRow, FALSE)

\* a session: st.session_state (matching_result and the histories), the
\* results it may still produce, what the last create_share_link (link) and
\* get_shared_resume (view) gave, and the row a get_shared_resume under way
\* has selected
FreshSession(left) ==
    [matching_result |-> Absent, history |-> EmptyStore, left |-> left,
     link |-> NotCalled, view |-> NotCalled,
     pc |-> "ready", share_id |-> "", held |-> NoRow]

ShareIdle ==
    /\ config = NoConfig
    /\ records = [t \in Tokens |-> NoRow]
    /\ today = 0
    /\ tenant = [s \in Sessions |-> FreshSession(0)]
    /\ actor = ""

\* the keys of ks whose mirror script throws for the store st
Thrown(st, ks, q) ==
    {k \in ks : st[k].present /\ SetItemThrows(Dumps(st[k].val), q)}

\* main (matching analysis, after call_groq_api has returned):
\* add_to_history("resume", ...) and then add_to_history("jd", ...); what
\* the first raises ends the handler
SaveBoth ==
    /\ budget.appends > 0
    /\ LET first == add_to_history(history, "resume", clock, "given", clock)
           firstRaised == first.raised
                          \/ SyncRaises(Dumps(first.st["resume_history"].val), quota)
           ls1 == sync_to_localstorage(local_storage, first.st, "resume_history", quota)
           second == add_to_history(first.st, "jd", clock + 1, "given", clock + 1)
           secondRaised == second.raised
                           \/ SyncRaises(Dumps(second.st["jd_history"].val), quota)
           ls2 == sync_to_localstorage(ls1, second.st, "jd_history", quota)
       IN IF firstRaised
          THEN /\ history' = first.st
               /\ local_storage' = IF first.raised THEN local_storage ELSE ls1
               /\ log' = IF first.raised THEN log
                         ELSE [log EXCEPT !.resume = Append(@, Entry(clock, clock, "given"))]
               /\ hres' = Outcome(hres.n + 1, "append", TRUE, FALSE, 0,
                                  IF first.raised THEN "AttributeError" ELSE "sync",
                                  BadSyntaxDoc,
                                  IF first.raised THEN {}
                                  ELSE Thrown(first.st, {"resume_history"}, quota))
          ELSE /\ history' = second.st
               /\ local_storage' = IF second.raised THEN ls1 ELSE ls2
               /\ log' = [log EXCEPT
                             !.resume = Append(@, Entry(clock, clock, "given")),
                             !.jd = IF second.raised THEN @
                                    ELSE Append(@, Entry(clock + 1, clock + 1, "given"))]
               /\ hres' = Outcome(hres.n + 1, "append", secondRaised, ~secondRaised, 0,
                                  IF second.raised THEN "AttributeError"
                                  ELSE IF secondRaised THEN "sync" ELSE "",
                                  BadSyntaxDoc,
                                  Thrown(second.st,
                                         IF second.raised THEN {"resume_history"}
                                         ELSE {"resume_history", "jd_history"}, quota))
    /\ clock' = clock + 2
    /\ budget' = [budget EXCEPT !.appends = @ - 1]
    /\ UNCHANGED <<quota, exported>>

\* the two calls in a session whose other state is left out
SaveMatch == SaveBoth /\ UNCHANGED <<appVars, shareVars>>

\* main (matching tab, "from the history"): get_history(kind) is called when
\* the tab is drawn; the call that finds the key leaves the store as it is
GetHistory(kind) ==
    /\ budget.others > 0
    /\ ~history[HistoryKey(kind)].present
    /\ history' = init_history(history, kind)
    /\ hres' = Outcome(hres.n + 1, "get", FALSE, TRUE, 0, "", BadSyntaxDoc, {})
    /\ budget' = [budget EXCEPT !.others = @ - 1]
    /\ UNCHANGED <<local_storage, quota, clock, log, exported>>
    /\ UNCHANGED <<appVars, shareVars>>

\* the entries get_history(kind) returns to the tab, when it is a list
Listed(kind) ==
    LET slot == init_history(history, kind)[HistoryKey(kind)]
    IN IF slot.val.t = "list" THEN slot.val.items ELSE <<>>

\* main: the button that deletes the selected entry of the history (the
\* first or the last of the list)
DeleteItem(kind) ==
    /\ budget.others > 0
    /\ \E j \in {1, Len(Listed(kind))} \cap (1..Len(Listed(kind))) :
           history' = delete_history_item(init_history(history, kind), kind,
                                          Listed(kind)[j].id)
    /\ hres' = Outcome(hres.n + 1, "delete", FALSE, TRUE, 0, "", BadSyntaxDoc, {})
    /\ budget' = [budget EXCEPT !.others = @ - 1]
    /\ UNCHANGED <<local_storage, quota, clock, log, exported>>
    /\ UNCHANGED <<appVars, shareVars>>

\* main: the button that deletes the whole history, shown with an entry
ClearHistory(kind) ==
    /\ budget.others > 0
    /\ Listed(kind) # <<>>
    /\ history' = clear_history(init_history(history, kind), kind)
    /\ hres' = Outcome(hres.n + 1, "clear", FALSE, TRUE, 0, "", BadSyntaxDoc, {})
    /\ budget' = [budget EXCEPT !.others = @ - 1]
    /\ UNCHANGED <<local_storage, quota, clock, log, exported>>
    /\ UNCHANGED <<appVars, shareVars>>

\* len(st.session_state.get(key, []))
CountOf(st, key) == IF st[key].present THEN Len(st[key].val.items) ELSE 0

\* main: the download of export_history_to_json("all"), offered when one of
\* the two histories has an entry
Export ==
    /\ budget.others > 0
    /\ CountOf(history, "resume_history") + CountOf(history, "jd_history") > 0
    /\ exported' = [taken |-> TRUE, doc |-> export_history_to_json(history, clock),
                    of |-> history]
    /\ hres' = Outcome(hres.n + 1, "export", FALSE, TRUE, 0, "", BadSyntaxDoc, {})
    /\ clock' = clock + 1
    /\ budget' = [budget EXCEPT !.others = @ - 1]
    /\ UNCHANGED <<history, local_storage, quota, log>>
    /\ UNCHANGED <<appVars, shareVars>>

\* main: a file is uploaded and the import button pressed
Import(doc) ==
    /\ budget.others > 0
    /\ LET out == import_history_from_json(history, local_storage, doc, quota)
       IN /\ history' = out.st
          /\ local_storage' = out.ls
          /\ hres' = Outcome(hres.n + 1, "import", FALSE, out.ok, out.count, out.why, doc,
                             Thrown(out.st, {doc.data[j].key : j \in 1..Len(doc.data)}
                                            \cap StoreKeys, quota))
    /\ budget' = [budget EXCEPT !.others = @ - 1]
    /\ UNCHANGED <<quota, clock, log, exported>>
    /\ UNCHANGED <<appVars, shareVars>>

\* a saved job: {'title': ..., 'company': ..., ..., 'saved_at': ...}
\* (content: the company)
Job(now) == [id |-> 0, title |-> "job", content |-> 0, timestamp |-> now]

\* main (job offer mail): saved_jobs and saved_job_sets are initialised when
\* the page is drawn, and the save button appends the job or updates the
\* saved job of the same title and company
SaveJob ==
    /\ budget.others > 0
    /\ LET s1 == [k \in StoreKeys |->
                     IF k \in {"saved_jobs", "saved_job_sets"} /\ ~history[k].present
                     THEN Present(PyList(<<>>)) ELSE history[k]]
           jobs == s1["saved_jobs"].val
       IN /\ jobs.t = "list"
          /\ history' = [s1 EXCEPT !["saved_jobs"] = Present(PyList(
                 IF \E j \in 1..Len(jobs.items) :
                        jobs.items[j].title = "job" /\ jobs.items[j].content = 0
                 THEN LET at == CHOOSE j \in 1..Len(jobs.items) :
                                  /\ jobs.items[j].title = "job"
                                  /\ jobs.items[j].content = 0
                                  /\ \A h \in 1..(j - 1) :
                                         ~(jobs.items[h].title = "job"
                                           /\ jobs.items[h].content = 0)
                      IN [jobs.items EXCEPT ![at] = Job(clock)]
                 ELSE Append(jobs.items, Job(clock))))]
          /\ local_storage' = sync_to_localstorage(local_storage, history', "saved_jobs", quota)
    /\ hres' = Outcome(hres.n + 1, "save_job", FALSE, TRUE, 0, "", BadSyntaxDoc,
                       Thrown(history', {"saved_jobs"}, quota))
    /\ clock' = clock + 1
    /\ budget' = [budget EXCEPT !.others = @ - 1]
    /\ UNCHANGED <<quota, log, exported>>
    /\ UNCHANGED <<appVars, shareVars>>

\* the entries of an uploaded file
FileEntry(n) == Entry(0 - n, 0 - n, "file")
FileEntries(n) == [j \in 1..n |-> FileEntry(j)]

\* the files a user uploads: no JSON, JSON without data, a backup of one
\* history, a backup with a key the program does not know, a document whose
\* second value is a number, and a backup of more entries than the
\* capacity
JdOnlyDoc == Document(0, <<Member("jd_history", JsonArray(FileEntries(1)))>>)
NotesDoc ==
    Document(0, <<Member("notes", JsonArray(FileEntries(1))),
                  Member("resume_history", JsonArray(FileEntries(2)))>>)
NumberDoc ==
    Document(0, <<Member("resume_history", JsonArray(FileEntries(1))),
                  Member("jd_history", JsonNumber)>>)
LongDoc == Document(0, <<Member("resume_history", JsonArray(FileEntries(HISTORY_CAP + 1)))>>)
UploadDocs == {BadSyntaxDoc, NoDataDoc, JdOnlyDoc, NotesDoc, NumberDoc, LongDoc}

\* the storage of the browser: it takes no entry, or more than the program
\* ever writes
Quotas == {0, HISTORY_CAP + 1}

InitStore ==
    /\ text = <<>>
    /\ input_type = ""
    /\ vres = NoResult
    /\ PageIdle
    /\ backend = NoBackend
    /\ CallIdle
    /\ BatchIdle
    /\ SessionIdle
    /\ ShareIdle
    /\ history = EmptyStore
    /\ local_storage = EmptyStore
    /\ quota \in Quotas
    /\ clock = 1
    /\ budget = [appends |-> MaxSaves, others |-> MaxOps]
    /\ log = [k \in HistoryKinds |-> <<>>]
    /\ hres = NoOutcome
    /\ exported = NoExport

GetResumeHistory == GetHistory("resume")
GetJdHistory == GetHistory("jd")
DeleteResumeItem == DeleteItem("resume")
DeleteJdItem == DeleteItem("jd")
ClearResumeHistory == ClearHistory("resume")
ClearJdHistory == ClearHistory("jd")
ImportUpload == \E doc \in UploadDocs : Import(doc)
ImportExported == exported.taken /\ Import(exported.doc)

NextStore ==
    \/ SaveMatch
    \/ GetResumeHistory \/ GetJdHistory
    \/ DeleteResumeItem \/ DeleteJdItem
    \/ ClearResumeHistory \/ ClearJdHistory
    \/ Export \/ ImportUpload \/ ImportExported
    \/ SaveJob

SpecStore == InitStore /\ [][NextStore]_vars

\* the matching analysis run again and again in a fresh session
InitAppend ==
    /\ text = <<>>
    /\ input_type = ""
    /\ vres = NoResult
    /\ PageIdle
    /\ backend = NoBackend
    /\ CallIdle
    /\ BatchIdle
    /\ SessionIdle
    /\ ShareIdle
    /\ history = EmptyStore
    /\ local_storage = EmptyStore
    /\ quota \in Quotas
    /\ clock = 1
    /\ budget = [appends |-> HISTORY_CAP + MaxSaves, others |-> 0]
    /\ log = [k \in HistoryKinds |-> <<>>]
    /\ hres = NoOutcome
    /\ exported = NoExport

NextAppend == SaveMatch

SpecAppend == InitAppend /\ [][NextAppend]_vars

\* a mutant: st.session_state is one object for all sessions
SessionStateOf_Global(s) == "s1"

\* st.session_state in the script run of session s
SessionStateOf(s) == s

\* the text the user of session s works on
TextOf(s) == IF s = "s1" THEN 1 ELSE 2

\* main (matching analysis) in session s: the result is stored and the two
\* inputs are added to the histories
T_Match(s) ==
    /\ tenant[s].pc = "ready"
    /\ tenant[s].left > 0
    /\ LET own == SessionStateOf(s)
           first == add_to_history(tenant[own].history, "resume", TextOf(s), "given", today)
           second == add_to_history(first.st, "jd", TextOf(s), "given", today)
       IN tenant' = [[tenant EXCEPT ![own].matching_result = Present(PyStr(TextOf(s))),
                                    ![own].history = second.st]
                     EXCEPT ![s].left = @ - 1]
    /\ actor' = s
    /\ UNCHANGED <<config, records, today, clock>>
    /\ UNCHANGED <<appVars, storeOnly>>

\* secrets.token_urlsafe(24): an id that no row has
FreshToken(rows) ==
    IF ~rows["tokenA"].exists THEN "tokenA" ELSE "tokenB"

\* create_share_link(content) in session s, for the result it holds: the
\* insert fails when the datastore does (works FALSE)
T_Share(s) ==
    /\ tenant[s].pc = "ready"
    /\ tenant[SessionStateOf(s)].matching_result.present
    /\ \E t \in Tokens : ~records[t].exists
    /\ LET client == get_supabase_client(config)
           content == tenant[SessionStateOf(s)].matching_result.val.items[1]
           share_id == FreshToken(records)
       IN IF client = "raised"
          THEN /\ tenant' = [tenant EXCEPT ![s].link = Gave(TRUE, FALSE, "", NoRow, TRUE)]
               /\ UNCHANGED records
          ELSE IF client = "none"
          THEN /\ tenant' = [tenant EXCEPT ![s].link = Gave(FALSE, TRUE, "", NoRow, TRUE)]
               /\ UNCHANGED records
          ELSE \E works \in BOOLEAN :
                   IF works
                   THEN /\ records' = [records EXCEPT
                                          ![share_id] = Row(content, today + SHARE_DAYS, 0)]
                        /\ tenant' = [tenant EXCEPT
                                         ![s].link = Gave(FALSE, FALSE, share_id, NoRow, FALSE)]
                   ELSE /\ UNCHANGED records
                        /\ tenant' = [tenant EXCEPT ![s].link =
                                         IF Swallowed("insert")
                                         THEN Gave(FALSE, TRUE, "", NoRow, TRUE)
                                         ELSE Gave(TRUE, FALSE, "", NoRow, TRUE)]
    /\ actor' = s
    /\ UNCHANGED <<config, today, clock>>
    /\ UNCHANGED <<appVars, storeOnly>>

\* get_shared_resume(share_id) in session s, up to the select: single()
\* raises when no row has the id and expires_at > now
T_Open(s) ==
    /\ tenant[s].pc = "ready"
    /\ \E share_id \in Tokens, works \in BOOLEAN :
           LET client == get_supabase_client(config)
               row == records[share_id]
           IN /\ row.view_count < MaxViews
              /\ IF client = "raised"
                 THEN tenant' = [tenant EXCEPT ![s].view = Gave(TRUE, FALSE, "", NoRow, TRUE)]
                 ELSE IF client = "none"
                 THEN tenant' = [tenant EXCEPT ![s].view = Gave(FALSE, TRUE, "", NoRow, TRUE)]
                 ELSE IF works /\ row.exists /\ row.expires_at > today
                 THEN tenant' = [tenant EXCEPT ![s].pc = "selected",
                                               ![s].share_id = share_id,
                                               ![s].held = row]
                 ELSE tenant' = [tenant EXCEPT ![s].view =
                                    IF Swallowed("select")
                                    THEN Gave(FALSE, TRUE, "", NoRow, TRUE)
                                    ELSE Gave(TRUE, FALSE, "", NoRow, TRUE)]
    /\ actor' = s
    /\ UNCHANGED <<config, records, today, clock>>
    /\ UNCHANGED <<appVars, storeOnly>>

\* get_shared_resume, the rest: view_count of the row is set to the selected
\* view_count + 1 and the selected row is returned
T_Count(s) ==
    /\ tenant[s].pc = "selected"
    /\ \E works \in BOOLEAN :
           LET share_id == tenant[s].share_id
               held == tenant[s].held
           IN IF works
              THEN /\ records' = [records EXCEPT
                                     ![share_id].view_count = held.view_count + 1]
                   /\ tenant' = [tenant EXCEPT
                                    ![s].view = Gave(FALSE, FALSE, share_id, held, FALSE),
                                    ![s].pc = "ready", ![s].share_id = "",
                                    ![s].held = NoRow]
              ELSE /\ UNCHANGED records
                   /\ tenant' = [tenant EXCEPT
                                    ![s].view = IF Swallowed("update")
                                                THEN Gave(FALSE, TRUE, "", NoRow, TRUE)
                                                ELSE Gave(TRUE, FALSE, "", NoRow, TRUE),
                                    ![s].pc = "ready", ![s].share_id = "",
                                    ![s].held = NoRow]
    /\ actor' = s
    /\ UNCHANGED <<config, today, clock>>
    /\ UNCHANGED <<appVars, storeOnly>>

InitShare ==
    /\ text = <<>>
    /\ input_type = ""
    /\ vres = NoResult
    /\ PageIdle
    /\ backend = NoBackend
    /\ CallIdle
    /\ BatchIdle
    /\ SessionIdle
    /\ StoreIdle
    /\ config \in Configs
    /\ records = [t \in Tokens |-> NoRow]
    /\ today = 0
    /\ tenant = [s \in Sessions |-> FreshSession(MaxSaves)]
    /\ actor = ""

Match == \E s \in Sessions : T_Match(s)
CreateShareLink == \E s \in Sessions : T_Share(s)
OpenShare == \E s \in Sessions : T_Open(s)
CountView == \E s \in Sessions : T_Count(s)

NextShare == Match \/ CreateShareLink \/ OpenShare \/ CountView

SpecShare == InitShare /\ [][NextShare]_vars

\* ------------------------------------------------------------ the batches
\* the ten characters ---NEXT--- (up) or ---next--- in a text
Mark(up) == [k |-> "mark", w |-> "---next---", n |-> 10, up |-> up]

\* the literal "---NEXT---"
Delimiter == Mark(TRUE)

RECURSIVE PySplit(_, _)
\* t.split(sep): the text is cut at every occurrence of sep, from the left;
\* n occurrences give n + 1 pieces, empty ones included
PySplit(t, sep) ==
    IF \A j \in 1..Len(t) : t[j] # sep
    THEN <<t>>
    ELSE LET at == CHOOSE j \in 1..Len(t) :
                       t[j] = sep /\ \A h \in 1..(j - 1) : t[h] # sep
         IN <<SubSeq(t, 1, at - 1)>> \o PySplit(SubSeq(t, at + 1, Len(t)), sep)

\* a mutant: the blank pieces are kept
Split_KeepBlank(raw) ==
    LET pieces == PySplit(raw, Delimiter)
    IN [j \in 1..Len(pieces) |-> Strip(pieces[j])]

\* [r.strip() for r in batch_input.split("---NEXT---") if r.strip()]
Split(raw) ==
    LET pieces == PySplit(raw, Delimiter)
    IN SelectSeq([j \in 1..Len(pieces) |-> Strip(pieces[j])], LAMBDA r : r # <<>>)

\* the raw input is a non-empty string
NonEmptyInput(raw) == raw # <<>>

\* a mutant: only the batch without items is rejected
Rejected_NoCap(items) == Len(items) = 0

\* if len(resumes) == 0: ... elif len(resumes) > 10: ...
Rejected(items) == Len(items) = 0 \/ Len(items) > BATCH_CAP

\* result = {"index": i + 1, "status": "pending", "output": None, "error": None}
Pending(idx) == [index |-> idx + 1, status |-> "pending", output |-> None, error |-> None]

\* a mutant: the status of the failed item stays as it was
Failed_StaysPending(result, e) == [result EXCEPT !.error = Some(e)]

\* result["status"] = "error"; result["error"] = error_msg (str(e))
Failed(result, e) == [result EXCEPT !.status = "error", !.error = Some(e)]

\* result["status"] = "success"; result["output"] = output
Succeeded(result, output) == [result EXCEPT !.status = "success", !.output = Some(output)]

\* a mutant: the result is put at the head of the list
RecordResult_Front(rs, r) == <<r>> \o rs

\* results.append(result)
RecordResult(rs, r) == Append(rs, r)

\* a mutant: every item is taken to be valid
ItemValid_Always(r) == TRUE

\* is_valid of validate_input(resume, "resume")
ItemValid(r) == validate_input(r, "resume").ok

\* a mutant: the InvalidCredential error is not caught
Caught_NotCredential(r) == r.kind # "InvalidCredential"

\* except Exception as e: every ValueError of call_groq_api is caught
Caught(r) == TRUE

\* the prompt of an item: get_resume_optimization_prompt(resume, anonymize),
\* get_cv_proposal_extract_prompt(cv_text, anonymize_level)
ItemPrompt(r) ==
    [tpl |-> IF impl = "batch_cv" THEN "cv_proposal_extract" ELSE "resume_optimization",
     texts |-> <<r>>]

\* one loop iteration up to the call: the item that fails the validation is
\* recorded (continue, or append and time.sleep(1) when sleeps), the item
\* that passes it enters call_groq_api
ItemStep(sleeps) ==
    /\ bpc = "item"
    /\ i < Len(resumes)
    /\ LET resume == resumes[i + 1]
           result == Pending(i)
       IN IF ~ItemValid(resume)
          THEN /\ results' = RecordResult(results,
                      Failed(result, validate_input(resume, "resume")))
               /\ naps' = IF sleeps THEN naps + 1 ELSE naps
               /\ i' = i + 1
               /\ UNCHANGED <<bpc, calls, callVars>>
          ELSE /\ CallEnter(ItemPrompt(resume))
               /\ calls' = Append(calls, i + 1)
               /\ bpc' = "calling"
               /\ UNCHANGED <<results, naps, i>>
    /\ UNCHANGED <<impl, batch_input, resumes, stored, valVars, backend, restVars, sessVars>>

\* the rest of the iteration: call_groq_api has returned (success) or raised
\* (except Exception: error), the result is appended
RecordStep(sleeps) ==
    /\ bpc = "calling"
    /\ cpc \in {"returned", "raised"}
    /\ LET result == Pending(i) IN
       IF cres.ok
       THEN /\ results' = RecordResult(results, Succeeded(result, cres.text))
            /\ naps' = IF sleeps THEN naps + 1 ELSE naps
            /\ i' = i + 1
            /\ bpc' = "item"
       ELSE IF Caught(cres)
       THEN /\ results' = RecordResult(results, Failed(result, cres))
            /\ naps' = IF sleeps THEN naps + 1 ELSE naps
            /\ i' = i + 1
            /\ bpc' = "item"
       ELSE /\ bpc' = "aborted"
            /\ UNCHANGED <<results, naps, i>>
    /\ CallLeave
    /\ UNCHANGED <<impl, batch_input, resumes, calls, stored, valVars, backend, restVars, sessVars>>

\* process_batch_resumes(api_key, resumes, anonymize) is called
PBR_Enter ==
    /\ impl = "process_batch_resumes"
    /\ bpc = "ready"
    /\ resumes' = batch_input
    /\ results' = <<>>
    /\ i' = 0
    /\ bpc' = "item"
    /\ UNCHANGED <<impl, batch_input, calls, naps, stored, valVars, backend, restVars, callVars, sessVars>>

PBR_Item == impl = "process_batch_resumes" /\ ItemStep(FALSE)

PBR_Record == impl = "process_batch_resumes" /\ RecordStep(FALSE)

\* return results
PBR_Return ==
    /\ impl = "process_batch_resumes"
    /\ bpc = "item"
    /\ i = Len(resumes)
    /\ bpc' = "done"
    /\ UNCHANGED <<impl, batch_input, resumes, i, results, calls, naps, stored,
                   valVars, backend, restVars, callVars, sessVars>>

\* main: the batch button is pressed (batch_btn and batch_input, batch_cv_btn
\* and batch_cv_input): the input is split, and rejected when it holds no
\* item or more than 10
Batch_Submit ==
    /\ impl \in {"batch_resume", "batch_cv"}
    /\ bpc = "ready"
    /\ NonEmptyInput(batch_input)
    /\ resumes' = Split(batch_input)
    /\ IF Rejected(resumes')
       THEN bpc' = "rejected" /\ UNCHANGED <<results, i>>
       ELSE bpc' = "item" /\ results' = <<>> /\ i' = 0
    /\ UNCHANGED <<impl, batch_input, calls, naps, stored, valVars, backend, restVars, callVars, sessVars>>

Batch_Item == impl \in {"batch_resume", "batch_cv"} /\ ItemStep(TRUE)

Batch_Record == impl \in {"batch_resume", "batch_cv"} /\ RecordStep(TRUE)

\* st.session_state['batch_results'] = results
Batch_Store ==
    /\ impl \in {"batch_resume", "batch_cv"}
    /\ bpc = "item"
    /\ i = Len(resumes)
    /\ stored' = Some(results)
    /\ bpc' = "done"
    /\ UNCHANGED <<impl, batch_input, resumes, i, results, calls, naps,
                   valVars, backend, restVars, callVars, sessVars>>

\* the pieces of a drawn batch input
GoodResume == <<Word("experience", FALSE), Fill(MIN_INPUT_CHARS)>>
PaddedResume == <<WS(1), Word("skill", TRUE), Fill(MIN_INPUT_CHARS), WS(1)>>
ShortText == <<Word("skill", FALSE)>>
PlainText == <<Fill(MIN_INPUT_CHARS)>>
Blank == <<WS(1)>>
BatchPieces == {PaddedResume, ShortText, PlainText, Blank}

\* the resumes argument of process_batch_resumes
BatchInputs == UNION {[1..n -> BatchPieces] : n \in 1..MaxPieces}

RECURSIVE Join(_)
\* the pieces written one after another with the delimiter between them
Join(pieces) ==
    IF Len(pieces) = 1 THEN pieces[1]
    ELSE pieces[1] \o <<Delimiter>> \o Join(Tail(pieces))

\* a text that holds ---next--- in lower case, and nothing between two
\* delimiters
NearMiss == <<Word("skill", FALSE), Mark(FALSE), Word("skill", FALSE)>>
RawPieces == {PaddedResume, ShortText, Blank, NearMiss, <<>>}

\* the raw text of a batch text area
RawInputs == {Join(ps) : ps \in UNION {[1..n -> RawPieces] : n \in 1..MaxPieces}}

\* one item more than the cap allows
OverCapInput == Join([j \in 1..(BATCH_CAP + 1) |-> GoodResume])

\* as many items as the cap allows, among more pieces than that
AtCapInput == Join([j \in 1..(BATCH_CAP + 2) |-> IF j \in {2, 5} THEN Blank ELSE ShortText])

\* the endpoint of a batch run: one error of each class, one text
BatchBackend ==
    [msgs |-> {Msg({}, 130), Msg({<<"authentication", FALSE>>}, 40),
               Msg({<<"rate limit", TRUE>>}, 40), Msg({<<"timed out", FALSE>>}, 40)},
     texts |-> {<<Fill(40)>>}]

\* an endpoint that answers every request with a rate-limit error
BusyBackend == [msgs |-> {Msg({<<"rate limit", TRUE>>}, 40)}, texts |-> {}]

\* as many resumes as the cap allows, each of them valid
FullBatch == [j \in 1..BATCH_CAP |-> GoodResume]

\* the results an earlier run of the batch has stored
EarlierResults == <<Succeeded(Pending(0), <<Fill(40)>>)>>

\* the inputs of a run that follows an earlier one: more than the cap
\* allows, nothing but whitespace, one resume
LaterInputs == {OverCapInput, Blank, PaddedResume}

InitBatch ==
    /\ text = <<>>
    /\ input_type = ""
    /\ vres = NoResult
    /\ PageIdle
    /\ CallIdle
    /\ \/ /\ impl = "process_batch_resumes"
          /\ batch_input \in BatchInputs
          /\ backend = BatchBackend
          /\ stored = None
       \/ /\ impl \in {"batch_resume", "batch_cv"}
          /\ batch_input \in RawInputs \cup {OverCapInput, AtCapInput}
          /\ backend = BatchBackend
          /\ stored = None
       \/ /\ impl \in {"batch_resume", "batch_cv"}
          /\ batch_input \in LaterInputs
          /\ backend = BatchBackend
          /\ stored = Some(EarlierResults)
       \/ /\ impl = "process_batch_resumes"
          /\ batch_input = FullBatch
          /\ backend = BusyBackend
          /\ stored = None
       \/ /\ impl \in {"batch_resume", "batch_cv"}
          /\ batch_input = Join(FullBatch)
          /\ backend = BusyBackend
          /\ stored = None
    /\ bpc = "ready"
    /\ resumes = <<>>
    /\ i = 0
    /\ results = <<>>
    /\ calls = <<>>
    /\ naps = 0
    /\ SessionIdle
    /\ StoreIdle
    /\ ShareIdle

NextBatch ==
    \/ PBR_Enter \/ PBR_Item \/ PBR_Record \/ PBR_Return
    \/ Batch_Submit \/ Batch_Item \/ Batch_Record \/ Batch_Store
    \/ IssueRequest \/ RespondOk \/ RespondFail

SpecBatch == InitBatch /\ [][NextBatch]_vars

\* ------------------------------------------------- the actions of main
\* the session of a user who has entered an API key

\* the user types or pastes t into a text area
Type(area, t) ==
    /\ spc = "ready"
    /\ widgets' = [widgets EXCEPT ![area] = t]
    /\ widgets' # widgets
    /\ UNCHANGED <<session_state, spc, notice, valVars, backend, restVars, batchVars, callVars>>

\* a first-stage button is pressed on the text of area: the text is
\* validated (st.warning when it fails) and the prompt built from it is
\* passed to call_groq_api
Click(handler, area, ty, tpl) ==
    /\ spc = "ready"
    /\ widgets[area] # <<>>
    /\ LET input == widgets[area]
           checked == validate_input(input, ty)
       IN IF ~checked.ok
          THEN /\ notice' = Shown("warning", checked)
               /\ UNCHANGED <<spc, callVars>>
          ELSE /\ CallEnter([tpl |-> tpl, texts |-> <<input>>])
               /\ spc' = handler
               /\ UNCHANGED notice
    /\ UNCHANGED <<widgets, session_state, valVars, backend, restVars, batchVars>>

\* the except clauses that follow the try block of a handler: except
\* ValueError and except Exception after a first-stage button, except
\* Exception alone after a follow-up button
ExceptClauses(handler) ==
    IF handler \in {"resume_optimize", "cv_extract", "matching"}
    THEN <<"ValueError", "Exception">>
    ELSE <<"Exception">>

\* what call_groq_api raises is a ValueError
ClassOf(r) == "ValueError"

\* a clause catches its class and, except Exception, every class
IsInstance(cls, clause) == clause = cls \/ clause = "Exception"

\* a mutant: only a clause except ValueError catches
Catches_ValueErrorClause(handler, r) ==
    \E j \in 1..Len(ExceptClauses(handler)) : ExceptClauses(handler)[j] = "ValueError"

\* one of the except clauses of the handler catches what was raised
Catches(handler, r) ==
    \E j \in 1..Len(ExceptClauses(handler)) :
        IsInstance(ClassOf(r), ExceptClauses(handler)[j])

\* call_groq_api is over in handler: the text is stored under key
\* (st.success), or the exception is caught and shown (st.error); an
\* exception that no clause catches ends the script run ("crashed")
Finish(handler, key) ==
    /\ spc = handler
    /\ cpc \in {"returned", "raised"}
    /\ IF cres.ok
       THEN /\ session_state' = [session_state EXCEPT ![key] = Some(cres.text)]
            /\ notice' = Shown("success", [msg |-> handler])
            /\ spc' = "ready"
       ELSE IF Catches(handler, cres)
       THEN /\ notice' = Shown("error", cres)
            /\ spc' = "ready"
            /\ UNCHANGED session_state
       ELSE /\ spc' = "crashed"
            /\ UNCHANGED <<notice, session_state>>
    /\ CallLeave
    /\ UNCHANGED <<widgets, valVars, backend, restVars, batchVars>>

\* the resume tab: process_btn
ResumeOptimize_Click ==
    Click("resume_optimize", "resume_text_input", "resume", "resume_optimization")

ResumeOptimize_Finish == Finish("resume_optimize", "resume_result")

\* the resume tab: the convert_to_en_anonymize button, shown with the result
ConvertToEn_Click ==
    /\ spc = "ready"
    /\ session_state.resume_result # None
    /\ IF widgets.resume_text_input # <<>>
       THEN /\ CallEnter([tpl |-> "english_anonymization",
                          texts |-> <<widgets.resume_text_input>>])
            /\ spc' = "convert_to_en_anonymize"
            /\ UNCHANGED notice
       ELSE /\ notice' = Shown("error", [msg |-> "original resume not found"])
            /\ UNCHANGED <<spc, callVars>>
    /\ UNCHANGED <<widgets, session_state, valVars, backend, restVars, batchVars>>

ConvertToEn_Finish == Finish("convert_to_en_anonymize", "resume_en_result")

\* the CV tab: cv_extract_btn
CvExtract_Click == Click("cv_extract", "cv_extract_input", "resume", "cv_proposal_extract")

CvExtract_Finish == Finish("cv_extract", "cv_extract_result")

\* the CV tab: the shorten_cv_extract button, shown with the result
Shorten_Click ==
    /\ spc = "ready"
    /\ session_state.cv_extract_result # None
    /\ CallEnter([tpl |-> "shorten_proposal",
                  texts |-> <<session_state.cv_extract_result.v>>])
    /\ spc' = "shorten_cv_extract"
    /\ UNCHANGED <<notice, widgets, session_state, valVars, backend, restVars, batchVars>>

Shorten_Finish == Finish("shorten_cv_extract", "cv_extract_result")

\* the texts a user types
SessionTexts == {<<>>, GoodResume, ShortText}

\* the endpoint of a session: an unclassified error, a credential error,
\* and a text of a length the validator accepts, so that the texts below
\* MIN_INPUT_CHARS in a session are those the user typed
SessionBackend ==
    [msgs |-> {Msg({}, 40), Msg({<<"invalid api key", TRUE>>}, 40)},
     texts |-> {<<Word("skill", FALSE), Fill(400)>>}]

InitSession ==
    /\ text = <<>>
    /\ input_type = ""
    /\ vres = NoResult
    /\ PageIdle
    /\ backend = SessionBackend
    /\ CallIdle
    /\ BatchIdle
    /\ SessionIdle
    /\ StoreIdle
    /\ ShareIdle

TypeResume == \E t \in SessionTexts : Type("resume_text_input", t)

TypeCv == \E t \in SessionTexts : Type("cv_extract_input", t)

NextSession ==
    \/ TypeResume \/ TypeCv
    \/ ResumeOptimize_Click \/ ResumeOptimize_Finish
    \/ ConvertToEn_Click \/ ConvertToEn_Finish
    \/ CvExtract_Click \/ CvExtract_Finish
    \/ Shorten_Click \/ Shorten_Finish
    \/ IssueRequest \/ RespondOk \/ RespondFail

SpecSession == InitSession /\ [][NextSession]_vars

\* ------------------------------------------------- the matching analysis
\* the matching tab: process_btn is pressed on the two inputs; both are
\* needed, both are validated as "matching", and the prompt built from them
\* is passed to call_groq_api
Matching_Click ==
    /\ spc = "ready"
    /\ budget.appends > 0
    /\ LET matching_resume_input == widgets.matching_resume_input
           matching_jd_input == widgets.matching_jd_input
           checked_resume == validate_input(matching_resume_input, "matching")
           checked_jd == validate_input(matching_jd_input, "matching")
       IN IF matching_resume_input = <<>> \/ matching_jd_input = <<>>
          THEN /\ notice' = Shown("warning", [msg |-> "both inputs are needed"])
               /\ UNCHANGED <<spc, callVars>>
          ELSE IF ~checked_resume.ok
          THEN /\ notice' = Shown("warning", checked_resume)
               /\ UNCHANGED <<spc, callVars>>
          ELSE IF ~checked_jd.ok
          THEN /\ notice' = Shown("warning", checked_jd)
               /\ UNCHANGED <<spc, callVars>>
          ELSE /\ CallEnter([tpl |-> "matching_analysis",
                             texts |-> <<matching_resume_input, matching_jd_input>>])
               /\ spc' = "matching"
               /\ UNCHANGED notice
    /\ UNCHANGED <<widgets, session_state, valVars, backend, restVars, batchVars>>

\* call_groq_api is over in the matching handler: the result and the two
\* inputs are stored and the inputs added to the histories, inside the try
\* block (what add_to_history raises is caught by except Exception); or the
\* exception of the call is caught and shown
Matching_Finish ==
    /\ spc = "matching"
    /\ cpc \in {"returned", "raised"}
    /\ IF cres.ok
       THEN /\ SaveBoth
            /\ session_state' = [session_state EXCEPT
                                    !.matching_result = Some(cres.text),
                                    !.matching_resume_input = Some(prompt.texts[1]),
                                    !.matching_jd_input = Some(prompt.texts[2])]
            /\ notice' = IF hres'.raised
                         THEN Shown("error", [msg |-> hres'.why])
                         ELSE Shown("success", [msg |-> "matching"])
            /\ spc' = "ready"
       ELSE IF Catches("matching", cres)
       THEN /\ notice' = Shown("error", cres)
            /\ spc' = "ready"
            /\ UNCHANGED <<session_state, storeVars>>
       ELSE /\ spc' = "crashed"
            /\ UNCHANGED <<notice, session_state, storeVars>>
    /\ CallLeave
    /\ UNCHANGED <<widgets, valVars, backend, batchVars, shareVars, pageVars>>

\* the history tab: a backup file is imported between two actions
Matching_Import ==
    /\ spc = "ready"
    /\ \E doc \in {JdOnlyDoc, NumberDoc} : Import(doc)

TypeMatchingResume == \E t \in SessionTexts : Type("matching_resume_input", t)

TypeMatchingJd == \E t \in SessionTexts : Type("matching_jd_input", t)

InitMatching ==
    /\ text = <<>>
    /\ input_type = ""
    /\ vres = NoResult
    /\ PageIdle
    /\ backend = SessionBackend
    /\ CallIdle
    /\ BatchIdle
    /\ SessionIdle
    /\ ShareIdle
    /\ history = EmptyStore
    /\ local_storage = EmptyStore
    /\ quota = HISTORY_CAP + 1
    /\ clock = 1
    /\ budget = [appends |-> MaxSaves + 1, others |-> MaxSaves]
    /\ log = [k \in HistoryKinds |-> <<>>]
    /\ hres = NoOutcome
    /\ exported = NoExport

NextMatching ==
    \/ TypeMatchingResume \/ TypeMatchingJd
    \/ Matching_Click \/ Matching_Finish
    \/ Matching_Import
    \/ IssueRequest \/ RespondOk \/ RespondFail

SpecMatching == InitMatching /\ [][NextMatching]_vars

\* ----------------------------------------------- the validator's inputs
InputTypes == {"resume", "jd", "jd_en", "company", "matching", "other"}

\* the words a drawn text may carry: none, or one word in either case
CoreWords ==
    {<<>>} \cup
    {<<Word(w, up)>> : w \in {"skill", "job", "developer", "boshu"}, up \in BOOLEAN}

CoreLengths ==
    {1} \cup ((MIN_INPUT_CHARS - LenSlack)..(MIN_INPUT_CHARS + LenSlack))
        \cup ((MAX_INPUT_CHARS - LenSlack)..(MAX_INPUT_CHARS + LenSlack))

Pad(n) == IF n = 0 THEN <<>> ELSE <<WS(n)>>

\* a core of exactly len characters: the word, then filler
Core(ws, len) ==
    IF PyLen(ws) >= len THEN <<Fill(len)>> ELSE ws \o <<Fill(len - PyLen(ws))>>

TextInputs ==
    {<<>>, <<WS(1)>>, <<WS(MIN_INPUT_CHARS + 1)>>} \cup
    {Pad(a) \o Core(ws, len) \o Pad(b) :
        a \in 0..MaxPad, b \in 0..MaxPad, ws \in CoreWords, len \in CoreLengths}

InitValidate ==
    /\ text \in TextInputs
    /\ input_type \in InputTypes
    /\ vres = NoResult
    /\ PageIdle
    /\ backend = NoBackend
    /\ CallIdle
    /\ BatchIdle
    /\ SessionIdle
    /\ StoreIdle
    /\ ShareIdle

\* one call validate_input(text, input_type)
Validate ==
    /\ vres = NoResult
    /\ vres' = validate_input(text, input_type)
    /\ UNCHANGED <<text, input_type, backend, restVars, callVars, batchVars, sessVars>>

NextValidate == Validate

SpecValidate == InitValidate /\ [][NextValidate]_vars

\* ------------------------------------------- call_groq_api on its own
\* the prompts of a direct call: one text under some template
CallPrompts == {[tpl |-> "resume_optimization", texts |-> <<t>>] : t \in ModelOutputs}

InitCall ==
    /\ text = <<>>
    /\ input_type = ""
    /\ vres = NoResult
    /\ PageIdle
    /\ backend = FullBackend
    /\ CallIdle
    /\ BatchIdle
    /\ SessionIdle
    /\ StoreIdle
    /\ ShareIdle

\* some caller calls call_groq_api(api_key, p)
Invoke ==
    /\ cpc = "idle"
    /\ \E p \in CallPrompts : CallEnter(p)
    /\ UNCHANGED callerVars

NextCall == Invoke \/ IssueRequest \/ RespondOk \/ RespondFail

SpecCall == InitCall /\ [][NextCall]_vars

\* every request is answered, with a text or with an error (the request
\* carries timeout=60), and the loop goes on to its next statement
SpecCallLive ==
    InitCall /\ [][NextCall]_vars
        /\ WF_vars(IssueRequest) /\ WF_vars(RespondOk) /\ WF_vars(RespondFail)

\* -------------------------------------------- generate_html on its own
\* the lines of a drawn text, and the texts: up to MaxLines lines, with or
\* without a newline at the end
MarkdownLines == {TableRow(2), SepRow(2), Plain, Empty}
MarkdownTexts ==
    {Markdown(ls, nl) :
        ls \in UNION {[1..n -> MarkdownLines] : n \in 1..MaxLines}, nl \in BOOLEAN}

InitHtml ==
    /\ text = <<>>
    /\ input_type = ""
    /\ vres = NoResult
    /\ md_content \in MarkdownTexts
    /\ html_content = NotRendered
    /\ backend = NoBackend
    /\ CallIdle
    /\ BatchIdle
    /\ SessionIdle
    /\ StoreIdle
    /\ ShareIdle

\* one of the HTML download buttons: generate_html(content, title)
GenerateHtml ==
    /\ ~html_content.done
    /\ html_content' = Rendered(generate_html(md_content))
    /\ UNCHANGED <<md_content, valVars, backend, callVars, batchVars, sessVars,
                   storeVars, shareVars>>

NextHtml == GenerateHtml

SpecHtml == InitHtml /\ [][NextHtml]_vars

\* ======================================================== the claims
\* what a claim reads off events
EventsOf(kind) == {k \in 1..Len(events) : events[k].e = kind}
Requests == Cardinality(EventsOf("request"))
Failures == Cardinality(EventsOf("fail"))
Sleeps == [k \in 1..Cardinality(EventsOf("sleep")) |->
             events[CHOOSE j \in EventsOf("sleep") :
                        Cardinality({h \in EventsOf("sleep") : h <= j}) = k].n]
\* the message contains the phrase, in whatever case
Mentions(m, phrase) == \E up \in BOOLEAN : <<phrase, up>> \in m.marks
IsAuthMsg(m) == Mentions(m, "invalid api key") \/ Mentions(m, "authentication")
IsRateMsg(m) == ~IsAuthMsg(m) /\ Mentions(m, "rate limit")
IsGenericMsg(m) == \A p \in Markers : ~Mentions(m, p)
CallOver == cpc \in {"returned", "raised"}

\* C1: one call of call_groq_api sends at most MAX_RETRIES requests, the
\* request of attempt n+1 is sent only after the n+1 earlier attempts have
\* all failed, and at most one request is in flight at any time.
C1_BoundedSequentialAttempts ==
    /\ Requests <= MAX_RETRIES
    /\ inflight \in {0, 1}
    /\ inflight = Requests - Failures - Cardinality(EventsOf("ok"))
    /\ \A k \in EventsOf("request") :
        /\ events[k].n = Cardinality({j \in EventsOf("request") : j < k})
        /\ events[k].n = Cardinality({j \in EventsOf("fail") : j < k})
        /\ \A j \in EventsOf("ok") : j > k

\* a call that has sent MAX_RETRIES requests, after failures of two classes
C1_Witness ==
    /\ cpc = "inflight"
    /\ Requests = MAX_RETRIES
    /\ \E j, k \in EventsOf("fail") : IsRateMsg(events[j].m) /\ IsGenericMsg(events[k].m)

\* C2: a failure whose message contains "invalid api key" or
\* "authentication", in any case and whatever else it contains, at whatever
\* attempt, ends the call at once with InvalidCredential: nothing follows it,
\* no sleep and no request; when every failure is of that kind the call has
\* sent exactly one request.
C2_AuthFailsAtOnce ==
    /\ \A k \in EventsOf("fail") :
        IsAuthMsg(events[k].m) =>
            /\ k = Len(events)
            /\ cpc = "raised"
            /\ cres = Raised("InvalidCredential", 0, NoMsg)
    /\ (cpc = "raised" /\ \A k \in EventsOf("fail") : IsAuthMsg(events[k].m)) =>
            /\ Requests = 1
            /\ EventsOf("sleep") = {}

\* the third attempt fails with a message that matches the credential class
\* and the rate-limit class
C2_Witness ==
    /\ cpc = "raised"
    /\ cres.kind = "InvalidCredential"
    /\ Requests = MAX_RETRIES
    /\ Mentions(last_error, "authentication") /\ Mentions(last_error, "rate limit")

\* C3: a rate-limit failure of attempt i < MAX_RETRIES - 1 is followed by a
\* sleep of (i + 1) * 5 seconds and then by the request of attempt i + 1,
\* whatever failed before; when every attempt fails on the rate limit the
\* call sends MAX_RETRIES requests, sleeps 5 then 10 seconds and raises
\* RateLimited.
C3_RateLimitBackoff ==
    /\ \A k \in EventsOf("fail") :
        (IsRateMsg(events[k].m) /\ events[k].n < MAX_RETRIES - 1) =>
            /\ Len(events) > k
            /\ events[k + 1] = Ev("sleep", (events[k].n + 1) * 5, NoMsg, <<>>)
            /\ IF Len(events) > k + 1
               THEN events[k + 2] = Ev("request", events[k].n + 1, NoMsg, <<>>)
               ELSE cpc = "loop" /\ attempt = events[k].n + 1
    /\ (CallOver /\ EventsOf("ok") = {} /\ \A k \in EventsOf("fail") : IsRateMsg(events[k].m)) =>
            /\ Requests = 3
            /\ Sleeps = <<5, 10>>
            /\ cres = Raised("RateLimited", 0, NoMsg)

\* every attempt failed on the rate limit and the call is over
C3_Witness ==
    /\ cpc = "raised"
    /\ Failures = MAX_RETRIES
    /\ \A k \in EventsOf("fail") : IsRateMsg(events[k].m)
    /\ Sleeps = <<5, 10>>

\* C4: the call returns the text of the first attempt that succeeds, having
\* sent as many requests as that attempt's number, and nothing follows the
\* success; an unclassified failure with attempts left is followed by a
\* 2-second sleep, so two such failures then a success are three requests
\* with a 2-second sleep before the second and the third.
C4_FirstSuccessReturns ==
    /\ \A k \in EventsOf("ok") :
        /\ k = Len(events)
        /\ cpc = "returned"
        /\ cres = Returned(events[k].t)
        /\ Requests = events[k].n + 1
        /\ Failures = events[k].n
    /\ cpc = "returned" => EventsOf("ok") # {}
    /\ \A k \in EventsOf("fail") :
        (IsGenericMsg(events[k].m) /\ events[k].n < MAX_RETRIES - 1) =>
            /\ Len(events) > k
            /\ events[k + 1] = Ev("sleep", 2, NoMsg, <<>>)
    /\ (cpc = "returned" /\ Failures = 2
            /\ \A k \in EventsOf("fail") : IsGenericMsg(events[k].m)) =>
        [k \in 1..Len(events) |-> <<events[k].e, events[k].n>>] =
            << <<"request", 0>>, <<"fail", 0>>, <<"sleep", 2>>,
               <<"request", 1>>, <<"fail", 1>>, <<"sleep", 2>>,
               <<"request", 2>>, <<"ok", 2>> >>

\* two unclassified failures, then the third attempt succeeds
C4_Witness ==
    /\ cpc = "returned"
    /\ Requests = 3
    /\ \A k \in EventsOf("fail") : IsGenericMsg(events[k].m)
    /\ cres.ok /\ cres.text \in ModelOutputs

\* what a claim reads off a text, independently of validate_input
TrimmedLen(t) == PyLen(Strip(t))
\* one of the keywords occurs in the text, in whatever case
HasKeywordAnyCase(t, kws) ==
    \E j \in 1..Len(t) : t[j].k = "word" /\ SubWords(t[j].w) \cap kws # {}
\* one of the keywords occurs in the text as written there
HasKeywordAsWritten(t, kws) ==
    \E j \in 1..Len(t) : t[j].k = "word" /\ ~t[j].up /\ SubWords(t[j].w) \cap kws # {}
Validated == vres # NoResult
LengthsPass == TrimmedLen(text) >= MIN_INPUT_CHARS /\ TrimmedLen(text) <= MAX_INPUT_CHARS

\* C5: every text interpolated into a prompt that is passed to
\* call_groq_api has a trimmed length of MIN_INPUT_CHARS..MAX_INPUT_CHARS,
\* in every action of the session, the follow-up actions included.
C5_Original ==
    cpc # "idle" =>
        \A k \in 1..Len(prompt.texts) :
            /\ TrimmedLen(prompt.texts[k]) >= MIN_INPUT_CHARS
            /\ TrimmedLen(prompt.texts[k]) <= MAX_INPUT_CHARS

\* C6 as stated: every text of trimmed length below 100 fails with TooShort,
\* every text of trimmed length above 15000 with TooLong and that length.
C6_Original ==
    Validated =>
        /\ TrimmedLen(text) < MIN_INPUT_CHARS => vres.e = "TooShort"
        /\ TrimmedLen(text) > MAX_INPUT_CHARS =>
            vres.e = "TooLong" /\ vres.len = TrimmedLen(text)

\* C6, amended: a text of trimmed length 0 fails with Empty, one of trimmed
\* length 1..99 with TooShort, one of trimmed length above 15000 with TooLong
\* and the trimmed length in the message; this for every input type and
\* whatever keywords the text holds.
C6_LengthChecks ==
    Validated =>
        /\ ~vres.ok \/ LengthsPass
        /\ TrimmedLen(text) = 0 => vres = Invalid("Empty", "", 0, 0)
        /\ (TrimmedLen(text) >= 1 /\ TrimmedLen(text) < MIN_INPUT_CHARS) =>
            vres = Invalid("TooShort", "", MIN_INPUT_CHARS, 0)
        /\ TrimmedLen(text) > MAX_INPUT_CHARS =>
            vres = Invalid("TooLong", "", MAX_INPUT_CHARS, TrimmedLen(text))

\* a padded text is too long by its trimmed length, and holds a keyword
C6_Witness ==
    /\ vres.e = "TooLong"
    /\ PyLen(text) > TrimmedLen(text)
    /\ input_type = "resume"
    /\ HasKeywordAnyCase(text, ResumeKeywords)

\* C7 as stated: with the lengths in range the result is NotRecognized
\* exactly when the type is resume and the lower-cased text holds no resume
\* keyword, or the type is a job posting (jd, jd_en) and the text as written
\* holds none of its keywords.
C7_Original ==
    (Validated /\ LengthsPass) =>
        ((vres.e = "NotRecognized") <=>
            \/ input_type = "resume" /\ ~HasKeywordAnyCase(text, ResumeKeywords)
            \/ input_type = "jd" /\ ~HasKeywordAsWritten(text, JdKeywords)
            \/ input_type = "jd_en" /\ ~HasKeywordAsWritten(text, JdEnKeywords))

\* C7, amended: with the lengths in range the result is NotRecognized exactly
\* when the type is resume and the text holds no resume keyword in any case,
\* or the type is jd and the text as written holds no jd keyword, or the type
\* is jd_en and the text holds no jd_en keyword in any case; every other type
\* is valid.
C7_KeywordChecks ==
    (Validated /\ LengthsPass) =>
        /\ (vres.e = "NotRecognized") <=>
            \/ input_type = "resume" /\ ~HasKeywordAnyCase(text, ResumeKeywords)
            \/ input_type = "jd" /\ ~HasKeywordAsWritten(text, JdKeywords)
            \/ input_type = "jd_en" /\ ~HasKeywordAnyCase(text, JdEnKeywords)
        /\ vres.e # "NotRecognized" => vres = Valid
        /\ vres.e = "NotRecognized" => vres = Invalid("NotRecognized", input_type, 0, 0)

\* an English job posting whose only keyword is written in upper case passes
C7_Witness ==
    /\ Validated /\ LengthsPass
    /\ input_type = "jd_en"
    /\ HasKeywordAnyCase(text, JdEnKeywords) /\ ~HasKeywordAsWritten(text, JdEnKeywords)
    /\ vres.ok

\* what a claim reads off a batch run
ItemPasses(j) == validate_input(resumes[j], "resume").ok
Reached(j) == j <= Len(results) \/ (bpc = "calling" /\ j = i + 1)
CallsFor(j) == Cardinality({k \in 1..Len(calls) : calls[k] = j})
BatchRunning == bpc \in {"item", "calling"}
IsCallError(e) ==
    \/ e \in {Raised(kind, 0, NoMsg) : kind \in {"InvalidCredential", "RateLimited", "TimedOut"}}
    \/ \E m \in backend.msgs : e = Raised("Other", MAX_RETRIES, Truncated(m))

\* C8: in a batch run an item that fails the validation is recorded with
\* status error and the validation message and call_groq_api is never called
\* for it; call_groq_api is called exactly once for each item that passes the
\* validation, with the prompt of that item.
C8_ValidationGatesCalls ==
    /\ \A j \in 1..Len(resumes) :
        /\ CallsFor(j) = IF ItemPasses(j) /\ Reached(j) THEN 1 ELSE 0
        /\ (j <= Len(results) /\ ~ItemPasses(j)) =>
            results[j] = [index |-> j, status |-> "error", output |-> None,
                          error |-> Some(validate_input(resumes[j], "resume"))]
    /\ \A k \in 1..Len(calls) : calls[k] \in 1..Len(resumes)
    /\ cpc # "idle" => (bpc = "calling" /\ prompt.texts = <<resumes[i + 1]>>)

\* a finished run in which an item failed the validation and a later one was
\* sent to the endpoint
C8_Witness ==
    /\ bpc = "done"
    /\ \E j, k \in 1..Len(resumes) :
        j < k /\ ~ItemPasses(j) /\ results[j].status = "error" /\ CallsFor(k) = 1

\* C9: the results of a batch run are appended in input order, one item at a
\* time: entry j has index j and is the outcome of item j, a finished run has
\* one entry per item, and an entry once recorded is never changed or removed
\* by the processing of a later item.
C9_InOrderOnePerItem ==
    /\ [](/\ BatchRunning => (Len(results) = i /\ i <= Len(resumes))
          /\ bpc = "done" => Len(results) = Len(resumes)
          /\ bpc = "calling" => (cpc # "idle" /\ calls[Len(calls)] = i + 1)
          /\ \A j \in 1..Len(results) :
                /\ results[j].index = j
                /\ IF ItemPasses(j)
                   THEN \/ /\ results[j].status = "success"
                           /\ results[j].output \in {Some(t) : t \in backend.texts}
                        \/ /\ results[j].status = "error"
                           /\ IsCallError(results[j].error.v)
                   ELSE /\ results[j].status = "error"
                        /\ results[j].error = Some(validate_input(resumes[j], "resume")))
    /\ [][bpc # "ready" =>
            /\ Len(results') \in {Len(results), Len(results) + 1}
            /\ \A j \in 1..Len(results) : results'[j] = results[j]]_vars

\* a finished run of three items: a success, then two failures
C9_Witness ==
    /\ bpc = "done"
    /\ Len(results) = 3
    /\ results[1].status = "success"
    /\ results[2].status = "error" /\ ~ItemPasses(2)
    /\ results[3].status = "error" /\ ItemPasses(3)

\* C10: an error of the validation or of call_groq_api, InvalidCredential
\* included, is recorded on its own item and never ends the run: the run is
\* never aborted, it can always go on until it is done, and then every item
\* has its result.
C10_ErrorsStayOnTheirItem ==
    /\ bpc # "aborted"
    /\ BatchRunning => ENABLED NextBatch
    /\ bpc = "done" =>
        /\ Len(results) = Len(resumes)
        /\ \A j \in 1..Len(results) :
            \/ results[j].status = "error" /\ results[j].output = None
                   /\ results[j].error # None
            \/ results[j].status = "success" /\ results[j].error = None
                   /\ results[j].output # None

\* a validation error, then an InvalidCredential error, then a success
C10_Witness ==
    /\ bpc = "done"
    /\ Len(results) = 3
    /\ results[1].status = "error" /\ ~ItemPasses(1)
    /\ results[2].error = Some(Raised("InvalidCredential", 0, NoMsg))
    /\ results[3].status = "success"


\* --------------------------------------------- claims C11, C12: the split
InlineBatch == impl \in {"batch_resume", "batch_cv"}

\* the places of the delimiters in a raw text, with both ends of the text
Cuts(raw) == {0, Len(raw) + 1} \cup {p \in 1..Len(raw) : raw[p] = Delimiter}

\* the segment of a raw text that starts after the cut at p
SegmentAfter(raw, p) ==
    LET q == CHOOSE c \in Cuts(raw) : c > p /\ \A d \in Cuts(raw) : d > p => d >= c
    IN SubSeq(raw, p + 1, q - 1)

IsBlank(seg) == \A j \in 1..Len(seg) : seg[j].k = "ws"

\* the cuts after which a non-blank segment starts
NonBlankStarts(raw) ==
    {p \in Cuts(raw) \ {Len(raw) + 1} : ~IsBlank(SegmentAfter(raw, p))}

\* the validate_input calls a batch run has made so far
Validations == Len(results) + (IF bpc = "calling" THEN 1 ELSE 0)

\* C11: in the two batch handlers of main a batch of no item or of more than
\* 10 items, the pieces that are blank not counted, is rejected with no
\* validation and no request made; a batch of 1 to 10 such items is not
\* rejected.
C11_CapBeforeAnyCall ==
    (InlineBatch /\ bpc # "ready") =>
        LET n == Cardinality(NonBlankStarts(batch_input)) IN
        /\ (n = 0 \/ n > BATCH_CAP) =>
               /\ bpc = "rejected"
               /\ Validations = 0
               /\ calls = <<>>
               /\ results = <<>>
               /\ cpc = "idle" /\ events = <<>> /\ inflight = 0
               /\ stored \in {None, Some(EarlierResults)}
        /\ (n \in 1..BATCH_CAP) => bpc # "rejected"

\* 11 non-blank items were submitted and rejected
C11_Witness ==
    /\ InlineBatch
    /\ bpc = "rejected"
    /\ Cardinality(NonBlankStarts(batch_input)) = BATCH_CAP + 1
    /\ Requests = 0

\* C12: the items of a submitted batch are the non-blank segments between
\* the ---NEXT--- delimiters of the raw input, each trimmed, in their order.
C12_SplitTrimDiscard ==
    (InlineBatch /\ bpc # "ready") =>
        LET starts == NonBlankStarts(batch_input) IN
        /\ Len(resumes) = Cardinality(starts)
        /\ \A a \in 1..Len(resumes) :
               \E p \in starts :
                   /\ Cardinality({q \in starts : q < p}) = a - 1
                   /\ resumes[a] = Strip(SegmentAfter(batch_input, p))

\* "A", blank, "B": three segments, the middle one blank, give two items
C12_Witness ==
    /\ InlineBatch
    /\ bpc # "ready"
    /\ Cardinality(Cuts(batch_input)) = 4
    /\ Len(resumes) = 2
    /\ resumes[1] = ShortText /\ resumes[2] = Strip(PaddedResume)
    /\ \E p \in Cuts(batch_input) : p > 0 /\ p <= Len(batch_input)
                                     /\ SegmentAfter(batch_input, p) = Blank

\* ------------------------------------------- claims C13 - C18: the histories
\* the entries of a Python list or JSON array slot; none when the key is absent
ItemsOf(slot) == IF slot.present /\ slot.val.t = "list" THEN slot.val.items ELSE <<>>

\* C13: add_to_history puts the new entry at the head of the list of its
\* kind and cuts the list at the capacity: the list holds the entries it was
\* given, the most recent first, the capacity most recent ones when it was
\* given more.
C13_HeadInsertTailCut ==
    \A kind \in HistoryKinds :
        LET given == log[kind]
            n == Len(given)
            kept == IF n > HISTORY_CAP THEN HISTORY_CAP ELSE n
            slot == history[HistoryKey(kind)]
        IN n > 0 =>
               /\ slot.present
               /\ slot.val = PyList([j \in 1..kept |-> given[n - j + 1]])

\* capacity + 1 entries were appended to the empty list: the oldest is gone
C13_Witness ==
    LET given == log["resume"]
        items == ItemsOf(history["resume_history"])
    IN /\ Len(given) = HISTORY_CAP + 1
       /\ Len(items) = HISTORY_CAP
       /\ items[1] = given[HISTORY_CAP + 1]
       /\ items[HISTORY_CAP] = given[2]
       /\ \A j \in 1..Len(items) : items[j] # given[1]

\* C14 (as stated): after any appends, deletes, clears and imports the list
\* of each kind holds at most the capacity of entries.
C14_Original ==
    \A kind \in HistoryKinds :
        Len(ItemsOf(history[HistoryKey(kind)])) <= HISTORY_CAP

\* the step is a call of import_history_from_json
ImportStep == hres'.n = hres.n + 1 /\ hres'.op = "import"

\* the keys of a document's data, and the value of a key
KeysOf(doc) == {doc.data[j].key : j \in 1..Len(doc.data)}
ValueOf(doc, k) == doc.data[CHOOSE j \in 1..Len(doc.data) : doc.data[j].key = k].value

RECURSIVE SumOfLengths(_, _)
SumOfLengths(doc, keys) ==
    IF keys = {} THEN 0
    ELSE LET k == CHOOSE x \in keys : TRUE
         IN Len(ValueOf(doc, k).items) + SumOfLengths(doc, keys \ {k})

\* C15: an import that succeeds sets the list of every known key of the
\* document to the list of the document, leaves the other keys of the store
\* as they were, and returns the sum of the lengths of the lists it set.
C15_ImportReplaces ==
    [][(ImportStep /\ hres'.ok) =>
          LET doc == hres'.doc IN
          /\ \A k \in StoreKeys :
                 IF k \in KeysOf(doc)
                 THEN /\ history'[k].present
                      /\ history'[k].val.t = "list"
                      /\ history'[k].val.items = ValueOf(doc, k).items
                 ELSE history'[k] = history[k]
          /\ hres'.count = SumOfLengths(doc, KeysOf(doc) \cap StoreKeys)]_vars

\* a backup with an unknown key was imported over a history that had an
\* entry: the entry is gone, the other history has kept its own
C15_Witness ==
    /\ hres.op = "import" /\ hres.ok
    /\ hres.doc = NotesDoc
    /\ hres.count = 2
    /\ Len(log["resume"]) = 1
    /\ ItemsOf(history["resume_history"]) = FileEntries(2)
    /\ ItemsOf(history["jd_history"]) = log["jd"]

\* C16 (as stated): an import that reports a failure leaves the store as it
\* was before the call.
C16_Original ==
    [][(ImportStep /\ ~hres'.ok) => history' = history]_vars

\* C17 (as stated): the import of the downloaded backup sets the list of
\* every kind to what it was when the backup was made, whatever was done to
\* the store in between.
C17_Original ==
    [][(ImportStep /\ hres'.ok /\ exported.taken /\ hres'.doc = exported.doc) =>
          \A kind \in HistoryKinds :
              ItemsOf(history'[HistoryKey(kind)])
                  = ItemsOf(exported.of[HistoryKey(kind)])]_vars

C19_ShareDegradesToNone ==
    \A s \in Sessions :
        LET link == tenant[s].link
            view == tenant[s].view
        IN /\ ~link.raised /\ ~view.raised
           /\ link.degraded => link.none
           /\ view.degraded => view.none
           /\ get_supabase_client(config) # "client" =>
                  /\ link # NotCalled => link.none
                  /\ view # NotCalled => view.none
                  /\ tenant[s].pc = "ready"

\* without the secrets a session asked for a link and got None, and a
\* session that opened a link got None
C19_Witness ==
    /\ config.available /\ config.url = "absent"
    /\ \E s \in Sessions : tenant[s].link.none /\ tenant[s].matching_result.present
    /\ \E s \in Sessions : tenant[s].view.none

\* st.session_state of a session: the result and the histories
StateOf(s) == [matching_result |-> tenant[s].matching_result, history |-> tenant[s].history]

\* C20: a step of one session leaves the result and the histories of every
\* other session as they were; what a session is given of another is a row
\* of the datastore, under the id it asked for.
C20_SessionsAreIsolated ==
    [][\A s \in Sessions :
          actor' = s =>
              /\ \A r \in Sessions \ {s} : StateOf(r)' = StateOf(r)
              /\ (tenant'[s].view # tenant[s].view /\ ~tenant'[s].view.none) =>
                     /\ tenant'[s].view.token = tenant[s].share_id
                     /\ tenant'[s].view.data = tenant[s].held
                     /\ StateOf(s)' = StateOf(s)]_vars

\* a session that has no result of its own reads the text another shared
C20_Witness ==
    \E s, r \in Sessions :
        /\ s # r
        /\ ~tenant[r].matching_result.present
        /\ tenant[r].history = EmptyStore
        /\ tenant[s].link.token # ""
        /\ tenant[r].view.token = tenant[s].link.token
        /\ tenant[r].view.data.content = TextOf(s)

\* ------------------------------ claims C22 - C24: the retries of one call
\* the message contains "timeout" or "timed out", in whatever case
SaysTimeout(m) == Mentions(m, "timeout") \/ Mentions(m, "timed out")
\* the failure is handled by the timeout branch: the two tests before it fail
IsTimeoutMsg(m) == ~IsAuthMsg(m) /\ ~Mentions(m, "rate limit") /\ SaysTimeout(m)
\* attempts remain after the failure events[k]
AttemptsRemain(k) == events[k].n < MAX_RETRIES - 1
\* nothing stands between the failure events[k] and the next attempt
RetriedAtOnce(k) ==
    IF Len(events) > k
    THEN events[k + 1] = Ev("request", events[k].n + 1, NoMsg, <<>>)
    ELSE cpc = "loop" /\ attempt = events[k].n + 1

\* C22 as stated: no sleep follows a failure whose message contains
\* "timeout" or "timed out" while attempts remain, whatever else the message
\* contains.
C22_Original ==
    \A k \in EventsOf("fail") :
        (SaysTimeout(events[k].m) /\ AttemptsRemain(k) /\ Len(events) > k) =>
            events[k + 1].e # "sleep"

\* C22: a failure whose message contains "timeout" or "timed out" and neither
\* a credential phrase nor "rate limit", while attempts remain, is followed
\* at once by the request of the next attempt, without a sleep.
C22_TimeoutRetriesAtOnce ==
    \A k \in EventsOf("fail") :
        (IsTimeoutMsg(events[k].m) /\ AttemptsRemain(k)) => RetriedAtOnce(k)

\* two timeouts, each followed at once by the next request
C22_Witness ==
    /\ Requests = MAX_RETRIES
    /\ Failures = MAX_RETRIES - 1
    /\ \A k \in EventsOf("fail") : IsTimeoutMsg(events[k].m) /\ events[k + 1].e = "request"
    /\ EventsOf("sleep") = {}

\* the failures of the call, in order
FailureMsgs ==
    [k \in 1..Failures |->
        events[CHOOSE j \in EventsOf("fail") :
                   Cardinality({h \in EventsOf("fail") : h <= j}) = k].m]

\* C23: when all MAX_RETRIES attempts have failed with retryable errors the
\* call raises RateLimited if the last failure was a rate-limit error,
\* TimedOut if it was a timeout, and otherwise Other with the attempt count
\* MAX_RETRIES and the last message cut to at most 100 characters, whatever
\* the earlier failures were.
C23_LastFailureDecides ==
    (CallOver /\ Failures = MAX_RETRIES
        /\ \A k \in 1..Failures : ~IsAuthMsg(FailureMsgs[k])) =>
        LET last == FailureMsgs[MAX_RETRIES] IN
        /\ cpc = "raised"
        /\ cres = IF IsRateMsg(last) THEN Raised("RateLimited", 0, NoMsg)
                  ELSE IF IsTimeoutMsg(last) THEN Raised("TimedOut", 0, NoMsg)
                  ELSE Raised("Other", MAX_RETRIES,
                              Msg(last.marks, IF last.len > 100 THEN 100 ELSE last.len))
        /\ cres.kind = "Other" => cres.detail.len <= 100

\* a rate-limit failure, a timeout, then an unclassified failure of more
\* than 100 characters: Other
C23_Witness ==
    /\ cpc = "raised"
    /\ Failures = MAX_RETRIES
    /\ IsRateMsg(FailureMsgs[1])
    /\ IsTimeoutMsg(FailureMsgs[2])
    /\ IsGenericMsg(FailureMsgs[3]) /\ FailureMsgs[3].len > 100
    /\ cres.kind = "Other" /\ cres.detail.len = 100

RECURSIVE SleepTotal(_)
\* the seconds slept in evs
SleepTotal(evs) ==
    IF evs = <<>> THEN 0
    ELSE (IF Head(evs).e = "sleep" THEN Head(evs).n ELSE 0) + SleepTotal(Tail(evs))

RECURSIVE ScheduledBackoff(_)
\* 5 + 10 + ... + 5 * n
ScheduledBackoff(n) == IF n = 0 THEN 0 ELSE 5 * n + ScheduledBackoff(n - 1)

CallErrorKinds == {"InvalidCredential", "RateLimited", "TimedOut", "Other"}

\* what C24 says of every state of a call
C24_Bounded ==
    /\ cpc = "returned" => cres.ok /\ cres.text \in backend.texts
    /\ cpc = "raised" => ~cres.ok /\ cres.kind \in CallErrorKinds
    /\ SleepTotal(events) <= ScheduledBackoff(MAX_RETRIES - 1)
    /\ \A k \in EventsOf("sleep") :
        /\ k > 1
        /\ events[k - 1].e = "fail"
        /\ events[k - 1].n < MAX_RETRIES - 1
        /\ ~IsAuthMsg(events[k - 1].m)
        /\ IF k < Len(events) THEN events[k + 1].e = "request" ELSE cpc = "loop"

\* C24: every call of call_groq_api comes to an end, with the text or with
\* one of InvalidCredential, RateLimited, TimedOut, Other; the seconds slept
\* within one call never exceed 5 + 10 = 15 for MAX_RETRIES = 3; no sleep
\* follows the last attempt or a credential failure.
C24_CallTerminates ==
    /\ []C24_Bounded
    /\ (cpc = "loop") ~> CallOver

\* a call that slept 5 and 10 seconds and then returned a text
C24_Witness ==
    /\ cpc = "returned"
    /\ Requests = MAX_RETRIES
    /\ SleepTotal(events) = ScheduledBackoff(MAX_RETRIES - 1)

\* ------------------------------------- claim C21: errors stay in the handler
\* a handler of main is inside call_groq_api, which has raised
HandlerHoldsError == spc \notin {"ready", "crashed"} /\ cpc = "raised"

\* C21: whatever call_groq_api raises in a handler of main is caught there:
\* the step that follows shows it as an error message, leaves the results
\* of the session as they are, and the handler is over, the session ready
\* for the next action.
C21_ErrorsStayInTheHandler ==
    [][ (HandlerHoldsError /\ spc' # spc) =>
            /\ spc' = "ready"
            /\ notice' = Shown("error", cres)
            /\ session_state' = session_state ]_vars

\* the "shorten" follow-up action has shown the error of its call: the
\* result of the first stage is still there
C21_Witness ==
    /\ spc = "ready"
    /\ cpc = "idle"
    /\ notice = Shown("error", Raised("InvalidCredential", 0, NoMsg))
    /\ session_state.cv_extract_result # None
    /\ session_state.resume_result = None
    /\ widgets.resume_text_input = <<>>

\* ----------------------------- claims C25, C28, C30: the run of a batch
\* C25 as stated: in every batch implementation each item that has been
\* recorded, whatever its status, was followed by one time.sleep(1).
C25_Original == naps = Len(results)

\* the items of the run that pass the validation and were reached
ValidReached == {j \in 1..Len(resumes) : ItemPasses(j) /\ Reached(j)}

\* C28: the requests a batch run has sent to the endpoint are at most
\* MAX_RETRIES for each item that passed the validation, none for the items
\* that failed it, and so at most MAX_RETRIES * 10 = 30 for a batch that
\* the cap accepts.
C28_RequestsPerBatch ==
    /\ sent <= MAX_RETRIES * Cardinality(ValidReached)
    /\ (\A j \in 1..Len(resumes) : ~ItemPasses(j)) => sent = 0
    /\ InlineBatch => sent <= MAX_RETRIES * BATCH_CAP

\* a batch of ten valid resumes, every request refused: thirty requests
C28_Witness ==
    /\ InlineBatch
    /\ bpc = "done"
    /\ Len(resumes) = BATCH_CAP
    /\ sent = MAX_RETRIES * BATCH_CAP

\* the result has its final form: success with an output and no error, or
\* error with an error and no output
Settled(r) ==
    \/ r.status = "success" /\ r.output # None /\ r.error = None
    \/ r.status = "error" /\ r.error # None /\ r.output = None

\* C30: when a batch run is over every item has a result in its final form,
\* none is pending; the stored results change only when a run is over, and
\* then to the results of that run, so that a batch that is rejected (no
\* item, more than 10 items) leaves the stored results as they were.
C30_SettledAndStoredOnCompletion ==
    [][ /\ bpc' = "done" =>
            /\ Len(results') = Len(resumes')
            /\ \A j \in 1..Len(results') : Settled(results'[j])
        /\ stored' # stored =>
            /\ bpc = "item" /\ i = Len(resumes) /\ bpc' = "done"
            /\ stored' = Some(results)
        /\ bpc' = "rejected" => stored' = stored ]_vars

\* a run of three items is over: one succeeded, one failed the validation,
\* one failed its call; the results of the run have replaced the stored ones
C30_Witness ==
    /\ InlineBatch
    /\ bpc = "done"
    /\ stored = Some(results)
    /\ \E a, b, c \in 1..Len(results) :
        /\ results[a].status = "success"
        /\ results[b].status = "error" /\ ~ItemPasses(b)
        /\ results[c].status = "error" /\ ItemPasses(c)

\* ------------------------------------------- claim C26: the view count
\* session s ends a get_shared_resume that returns the row it selected
ReturnsRow(s) ==
    /\ tenant[s].pc = "selected"
    /\ tenant'[s].pc = "ready"
    /\ ~tenant'[s].view.none
    /\ ~tenant'[s].view.raised

\* C26 as stated: every access of get_shared_resume that returns the row
\* raises the stored view_count of that row by exactly 1, also when the
\* select and the update of several viewers interleave.
C26_Original ==
    [][ \A s \in Sessions :
            ReturnsRow(s) =>
                records'[tenant[s].share_id].view_count =
                    records[tenant[s].share_id].view_count + 1 ]_vars

\* -------------------------------- claim C29: what the matching action changes
\* the list under key has one entry more, put before those it had
Prepended(key) ==
    /\ ItemsOf(history'[key]) # <<>>
    /\ Tail(ItemsOf(history'[key])) = ItemsOf(history[key])

TwoRowTables == {<<TableRow(2), TableRow(2)>>, <<TableRow(2), SepRow(2), TableRow(2)>>}
HoldsTwoRowTable(md) ==
    \E a \in 1..Len(md.lines) : \E b \in a..Len(md.lines) :
        /\ SubSeq(md.lines, a, b) \in TwoRowTables
        /\ \A j \in 1..Len(md.lines) : IsPipeLine(md.lines[j]) => j \in a..b
IsTable(piece) == piece.k = "table"
TablesOf(pieces) == SelectSeq(pieces, IsTable)

\* C27: once generate_html has run on a text that holds a 2-row pipe table
\* (with or without a separator row, anywhere in the text, its very end
\* included), html_content has exactly one <table>, and the table has one
\* <tr> of <th> cells for the first row followed by one <tr> of <td> cells
\* for the data row, and no <tr> for the separator row.
C27_Original ==
    (html_content.done /\ HoldsTwoRowTable(md_content))
        => TablesOf(html_content.pieces)
               = <<Table(<<Tr("th", 2), Tr("td", 2)>>)>>

=========================================================================
